---- MODULE Spec2Model ----
(***************************************************************************)
(* Model of the analysis-and-synchronisation engine of claude-context-box  *)
(* (claude_context/scripts/update.py and context.py).                      *)
(*                                                                         *)
(* Files are modelled by their text: a file's content is a TLA+ string and *)
(* the Python string methods the scripts use (split, strip, startswith,    *)
(* fnmatch ...) are operators on the characters of that string.  In the    *)
(* scripts the separator written as '\\n' is the two characters backslash  *)
(* and n, written "\\n" here; the newline character of the triple-quoted   *)
(* templates is "\n".                                                      *)
(***************************************************************************)
EXTENDS Integers, Sequences, FiniteSets, TLC

VARIABLES
    tree,          \* directory (sequence of path segments) -> sequence of files
    contexts,      \* directory -> its CONTEXT.llm: [content, mtime]
    project,       \* PROJECT.llm: [exists, content]
    clock,         \* the wall clock: datetime.now() and file modification times
    pc,            \* position of the running command
    state,         \* main: result of analyze_project_state()
    modules,       \* main: result of find_modules()
    dependencies,  \* main: result of analyze_dependencies(modules)
    last,          \* what the previous step or run wrote, for comparison
    file_analysis, \* the file last analysed and what analyze_python_file returned
    faulty,        \* the directories whose CONTEXT.llm cannot be opened
    disk,          \* the other files of the project: .claude, CLAUDE.md, backups
    installer,     \* ClaudeContextInstaller: its fields and the position of run()
    result         \* the value that the last call of a function returned

vars ==
    <<tree, contexts, project, clock, pc, state, modules, dependencies, last,
      file_analysis, faulty, disk, installer, result>>

-----------------------------------------------------------------------------
(* Python string methods, on the characters of a string                    *)

Char(s, i) == SubSeq(s, i, i)

From(s, i) == SubSeq(s, i, Len(s))

startswith(s, p) == Len(p) <= Len(s) /\ SubSeq(s, 1, Len(p)) = p

endswith(s, p) == Len(p) <= Len(s) /\ SubSeq(s, Len(s) - Len(p) + 1, Len(s)) = p

\* s.find(p) + 1: the position of the first occurrence of p in s, 0 if none
Occurrences(s, p) ==
    {i \in 1..(Len(s) - Len(p) + 1) : SubSeq(s, i, i + Len(p) - 1) = p}

Find(s, p) ==
    LET hits == Occurrences(s, p)
    IN  IF hits = {} THEN 0 ELSE CHOOSE i \in hits : \A j \in hits : i <= j

\* p in s
Contains(s, p) == Find(s, p) # 0

\* s.split(sep)
RECURSIVE split(_, _)
split(s, sep) ==
    LET k == Find(s, sep)
    IN  IF k = 0 THEN <<s>>
        ELSE <<SubSeq(s, 1, k - 1)>> \o split(From(s, k + Len(sep)), sep)

\* s.split(sep)[0] and s.split(sep)[1]
split0(s, sep) == split(s, sep)[1]
split1(s, sep) == split(s, sep)[2]

Whitespace == {" ", "\n", "\t", "\r"}

RECURSIVE lstrip(_)
lstrip(s) ==
    IF s # "" /\ Char(s, 1) \in Whitespace THEN lstrip(From(s, 2)) ELSE s

RECURSIVE rstrip(_)
rstrip(s) ==
    IF s # "" /\ Char(s, Len(s)) \in Whitespace
    THEN rstrip(SubSeq(s, 1, Len(s) - 1)) ELSE s

strip(s) == rstrip(lstrip(s))

\* s.split(): the maximal runs of non-whitespace characters
RECURSIVE WordEnd(_, _)
WordEnd(s, i) ==
    IF i > Len(s) \/ Char(s, i) \in Whitespace THEN i - 1 ELSE WordEnd(s, i + 1)

RECURSIVE words(_)
words(s) ==
    LET t == lstrip(s)
    IN  IF t = "" THEN <<>>
        ELSE LET e == WordEnd(t, 1)
             IN  <<SubSeq(t, 1, e)>> \o words(From(t, e + 1))

\* sep.join(parts)
RECURSIVE join(_, _)
join(sep, parts) ==
    IF parts = <<>> THEN ""
    ELSE IF Len(parts) = 1 THEN parts[1]
    ELSE parts[1] \o sep \o join(sep, Tail(parts))

\* fnmatch.fnmatch(name, pattern) for patterns made of literals, * and ?
RECURSIVE fnmatch(_, _)
fnmatch(s, p) ==
    IF p = "" THEN s = ""
    ELSE IF Char(p, 1) = "*"
         THEN fnmatch(s, From(p, 2)) \/ (s # "" /\ fnmatch(From(s, 2), p))
         ELSE /\ s # ""
              /\ (Char(p, 1) = "?" \/ Char(p, 1) = Char(s, 1))
              /\ fnmatch(From(s, 2), From(p, 2))

\* Code points of the characters that occur in paths, in increasing order
Alphabet == " -./0123456789ABCDEFGHIJKLMNOPQRSTUVWXYZ[]_abcdefghijklmnopqrstuvwxyz~"

Ord(c) == CHOOSE i \in 1..Len(Alphabet) : Char(Alphabet, i) = c

\* a < b for Python strings
RECURSIVE StrLess(_, _)
StrLess(a, b) ==
    IF b = "" THEN FALSE
    ELSE IF a = "" THEN TRUE
    ELSE IF Char(a, 1) = Char(b, 1) THEN StrLess(From(a, 2), From(b, 2))
    ELSE Ord(Char(a, 1)) < Ord(Char(b, 1))

\* sorted(S) for a set of strings
RECURSIVE sorted(_)
sorted(S) ==
    IF S = {} THEN <<>>
    ELSE LET m == CHOOSE x \in S : \A y \in S \ {x} : StrLess(x, y)
         IN  <<m>> \o sorted(S \ {m})

Range(f) == {f[i] : i \in DOMAIN f}

\* [f(x) for x in seq]
Names(seq) == [i \in 1..Len(seq) |-> seq[i].name]

-----------------------------------------------------------------------------
(* Configuration: update.py lines 26-59                                    *)

\* the ignore set without the environments, the cache and .claude
EXCLUDE_DIRS_NoEnvironments ==
    { "env", "ENV", ".env",
      "*.py[cod]",
      "build", "dist", "*.egg-info", ".eggs",
      ".mypy_cache", ".pytest_cache", ".cache", ".ipynb_checkpoints",
      ".tox", ".coverage", "htmlcov", "coverage", ".nyc_output",
      ".idea", ".vscode", ".fleet", ".DS_Store",
      ".git", ".svn", ".hg",
      "node_modules", "vendor",
      ".next", ".nuxt", "tmp", "temp", "target" }

EXCLUDE_DIRS ==
    { "venv", ".venv", "env", "ENV", ".env",
      "__pycache__", "*.py[cod]",
      "build", "dist", "*.egg-info", ".eggs",
      ".mypy_cache", ".pytest_cache", ".cache", ".ipynb_checkpoints",
      ".tox", ".coverage", "htmlcov", "coverage", ".nyc_output",
      ".idea", ".vscode", ".fleet", ".DS_Store",
      ".git", ".svn", ".hg",
      "node_modules", "vendor",
      ".claude", ".next", ".nuxt", "tmp", "temp", "target" }

EXCLUDE_PATTERNS ==
    { "*.pyc", "*.pyo", "*.pyd", ".DS_Store", "*.so", "*.dylib",
      "*.dll", "*.class", "*.log", "*.sqlite", "*.sqlite3", "*.db",
      "*.bak", "*.swp", "*.swo", "*~", ".env*", "*.tmp" }

\* find_modules: the additional system directories
SYSTEM_DIRS ==
    { ".claude_backup*", "backup*", "backups", ".backup*",
      "test_*", "tests_*", "testing", ".testing", "*backup*" }

\* find_modules: the prefixes of the "extra check"
SYSTEM_PREFIXES ==
    { "venv/", ".venv/", "env/", "ENV/", ".env/",
      "site-packages/", "lib/", "bin/", "Scripts/", "__pycache__/",
      "build/", "dist/", ".eggs/", ".tox/",
      ".mypy_cache/", ".pytest_cache/", ".cache/", ".ipynb_checkpoints/",
      "htmlcov/", ".coverage/",
      ".idea/", ".vscode/", ".fleet/",
      ".git/", ".svn/", ".hg/",
      "node_modules/", "vendor/",
      ".claude/" }

-----------------------------------------------------------------------------
(* Paths.  A directory is the sequence of its segments below the project   *)
(* root; the root is <<>>.                                                 *)

\* the root that os.walk('.') yields for a directory
WalkRoot(d) == IF d = <<>> THEN "." ELSE "./" \o join("/", d)

\* os.path.relpath(root)
relpath(d) == IF d = <<>> THEN "." ELSE join("/", d)

\* Path(root).parts
parts(d) == d

\* the directories os.walk visits when it prunes dirs[:] by EXCLUDE_DIRS
Walk(t) == {d \in DOMAIN t : \A i \in 1..Len(d) : d[i] \notin EXCLUDE_DIRS}

\* should_exclude(path), path given by its parts
should_exclude(ps) ==
    \/ \E i \in 1..Len(ps) : ps[i] \in EXCLUDE_DIRS
    \/ \E pattern \in EXCLUDE_PATTERNS :
           \E i \in 1..Len(ps) : fnmatch(ps[i], pattern)

\* find_modules: the source files of a directory that count
py_files(files) ==
    Names(SelectSeq(files,
        LAMBDA f : endswith(f.name, ".py") /\ ~should_exclude(<<f.name>>)))

\* the skip that tests the prefixes against the path with a slash appended
Skipped_PrefixOfDirectory(d) ==
    \/ should_exclude(parts(d))
    \/ \E pattern \in SYSTEM_DIRS : fnmatch(WalkRoot(d), pattern)
    \/ \E i \in 1..Len(d) : parts(d)[i] \in EXCLUDE_DIRS
    \/ \E prefix \in SYSTEM_PREFIXES : startswith(relpath(d) \o "/", prefix)

\* find_modules: the directories of the walk that are skipped
Skipped(d) ==
    \/ should_exclude(parts(d))
    \/ \E pattern \in SYSTEM_DIRS : fnmatch(WalkRoot(d), pattern)
    \/ \E i \in 1..Len(d) : parts(d)[i] \in EXCLUDE_DIRS
    \/ \E prefix \in SYSTEM_PREFIXES : startswith(relpath(d), prefix)

\* find_modules(): rel_path -> [files, has_context]
ModuleDirs(t) ==
    {d \in Walk(t) : ~Skipped(d) /\ py_files(t[d]) # <<>> /\ WalkRoot(d) # "."}

find_modules(t, ctx) ==
    LET D == ModuleDirs(t)
    IN  [p \in {relpath(d) : d \in D} |->
            LET d == CHOOSE e \in D : relpath(e) = p
            IN  [files |-> py_files(t[d]),
                 has_context |-> d \in DOMAIN ctx]]

-----------------------------------------------------------------------------
(* Case conversion: str.lower() and str.title()                            *)

LowerCase == "abcdefghijklmnopqrstuvwxyz"
UpperCase == "ABCDEFGHIJKLMNOPQRSTUVWXYZ"

IsLower(c) == Contains(LowerCase, c)
IsUpper(c) == Contains(UpperCase, c)
IsAlpha(c) == IsLower(c) \/ IsUpper(c)

ToLower(c) == IF IsUpper(c) THEN Char(LowerCase, Find(UpperCase, c)) ELSE c
ToUpper(c) == IF IsLower(c) THEN Char(UpperCase, Find(LowerCase, c)) ELSE c

RECURSIVE lower(_)
lower(s) == IF s = "" THEN "" ELSE ToLower(Char(s, 1)) \o lower(From(s, 2))

\* s.title(): a letter is upper case exactly when no letter precedes it
RECURSIVE TitleFrom(_, _)
TitleFrom(s, afterLetter) ==
    IF s = "" THEN ""
    ELSE LET c == Char(s, 1)
         IN  (IF afterLetter THEN ToLower(c) ELSE ToUpper(c))
             \o TitleFrom(From(s, 2), IsAlpha(c))

title(s) == TitleFrom(s, FALSE)

\* s.replace(old, "")
remove(s, old) == join("", split(s, old))

\* os.path.basename(path) of a directory
basename(d) == IF d = <<>> THEN "." ELSE d[Len(d)]

-----------------------------------------------------------------------------
(* Symbol extraction: analyze_python_file                                  *)
(* A source file is [name, text, readable, parses, ast, mtime]: open() and *)
(* read() succeed on a readable file, ast.parse succeeds on one that       *)
(* parses; ast is the body of the ast.Module that ast.parse returns, a     *)
(* sequence of nodes [type, name, col_offset, body].                       *)

\* ast.walk: breadth first over the queue of nodes still to visit
RECURSIVE walk(_)
walk(todo) ==
    IF todo = <<>> THEN <<>>
    ELSE <<Head(todo)>> \o walk(Tail(todo) \o Head(todo).body)

\* the public methods listed for a class
methods(node) ==
    Names(SelectSeq(node.body,
        LAMBDA item : item.type = "FunctionDef" /\ ~startswith(item.name, "_")))

\* analyze_python_file(filepath): [classes, functions]
analyze_python_file(f) ==
    IF ~f.readable \/ ~f.parses THEN [classes |-> <<>>, functions |-> <<>>]
    ELSE LET nodes == walk(f.ast)
             cls == SelectSeq(nodes, LAMBDA n : n.type = "ClassDef")
             fns == SelectSeq(nodes,
                       LAMBDA n : /\ n.type = "FunctionDef"
                                  /\ n.col_offset = 0
                                  /\ ~startswith(n.name, "_"))
         IN  [classes |-> [i \in 1..Len(cls) |->
                              [name |-> cls[i].name, methods |-> methods(cls[i])]],
              functions |-> Names(fns)]

\* Path(module_path).glob('*.py')
glob_py(files) == SelectSeq(files, LAMBDA f : endswith(f.name, ".py"))

\* the files of a directory, none if the directory holds no file
FilesOf(t, d) == IF d \in DOMAIN t THEN t[d] ELSE <<>>

\* the analysis in which the first file that fails ends the loop
RECURSIVE analyze_all_FailFast(_)
analyze_all_FailFast(files) ==
    IF files = <<>> THEN [classes |-> <<>>, functions |-> <<>>]
    ELSE IF ~Head(files).readable \/ ~Head(files).parses
    THEN [classes |-> <<>>, functions |-> <<>>]
    ELSE LET rest == analyze_all_FailFast(Tail(files))
             this == IF startswith(Head(files).name, "test_")
                     THEN [classes |-> <<>>, functions |-> <<>>]
                     ELSE analyze_python_file(Head(files))
         IN  [classes |-> this.classes \o rest.classes,
              functions |-> this.functions \o rest.functions]

\* the analysis of a directory: every *.py file that is not a test_ file
RECURSIVE analyze_all(_)
analyze_all(files) ==
    IF files = <<>> THEN [classes |-> <<>>, functions |-> <<>>]
    ELSE LET rest == analyze_all(Tail(files))
             this == IF startswith(Head(files).name, "test_")
                     THEN [classes |-> <<>>, functions |-> <<>>]
                     ELSE analyze_python_file(Head(files))
         IN  [classes |-> this.classes \o rest.classes,
              functions |-> this.functions \o rest.functions]

\* the lines of a class: "\\n- class C" and "\\n  - m()" for each method
RECURSIVE method_lines(_)
method_lines(ms) ==
    IF ms = <<>> THEN ""
    ELSE "\\n  - " \o Head(ms) \o "()" \o method_lines(Tail(ms))

RECURSIVE class_lines(_)
class_lines(cs) ==
    IF cs = <<>> THEN ""
    ELSE "\\n- class " \o Head(cs).name \o method_lines(Head(cs).methods)
         \o class_lines(Tail(cs))

RECURSIVE function_lines(_)
function_lines(fs) ==
    IF fs = <<>> THEN ""
    ELSE "\\n- " \o Head(fs) \o "()" \o function_lines(Tail(fs))

interface_lines(analysis) ==
    class_lines(analysis.classes) \o function_lines(analysis.functions)

\* generate_context_llm: the module type, from the path that os.walk yields
module_type(module_path) ==
    IF Contains(lower(module_path), "api") THEN "api"
    ELSE IF Contains(lower(module_path), "model") THEN "data"
    ELSE IF Contains(lower(module_path), "service") THEN "service"
    ELSE IF Contains(lower(module_path), "util") THEN "util"
    ELSE "module"

\* generate_context_llm(module_path); called only where *.py files exist
generate_context_llm(t, d) ==
    "@component: " \o remove(title(basename(d)), "_") \o "\n"
    \o "@type: " \o module_type(WalkRoot(d)) \o "\n"
    \o "@deps: []\n"
    \o "@purpose: [Add module purpose]\n"
    \o "\n"
    \o "@interface:"
    \o interface_lines(analyze_all(glob_py(FilesOf(t, d))))
    \o "\n\n@behavior:\n- [Add key behavior]\n- [Add error handling]\n- [Add performance notes]\n"

\* the directories in which a walk that prunes EXCLUDE_DIRS finds *.py files
HasPy(t, d) == \E i \in 1..Len(FilesOf(t, d)) : endswith(t[d][i].name, ".py")

\* create_missing_contexts() without its test os.path.exists(context_path)
CreatedByUpdate_All(t, ctx) ==
    {d \in Walk(t) : HasPy(t, d) /\ WalkRoot(d) # "."}

\* create_missing_contexts(): the directories that get a new CONTEXT.llm
CreatedByUpdate(t, ctx) ==
    {d \in Walk(t) : HasPy(t, d) /\ WalkRoot(d) # "." /\ d \notin DOMAIN ctx}

\* init_contexts() of context.py: the directories that get a new CONTEXT.llm
CreatedByInit(t, ctx) ==
    {d \in Walk(t) :
        /\ ~(\E i \in 1..Len(d) : parts(d)[i] \in EXCLUDE_DIRS)
        /\ ~(\E prefix \in SYSTEM_PREFIXES : startswith(relpath(d), prefix))
        /\ HasPy(t, d) /\ WalkRoot(d) # "." /\ d \notin DOMAIN ctx}

\* both write generate_context_llm(root) into each such directory
WriteNew(t, ctx, D, now) ==
    [d \in DOMAIN ctx \cup D |->
        IF d \in D THEN [content |-> generate_context_llm(t, d), mtime |-> now]
        ELSE ctx[d]]

\* update_existing_contexts / update_contexts: the merged text of one file
new_interface(t, d) ==
    "\\n@interface:" \o interface_lines(analyze_all(glob_py(FilesOf(t, d))))

\* the replacement of the descriptor by a fresh one
merge_Replace(t, d, content) == generate_context_llm(t, d)

merge(t, d, content) ==
    LET before == split0(content, "@interface:")
        after  == IF Contains(content, "@behavior:")
                  THEN "\\n@behavior:" \o split1(content, "@behavior:")
                  ELSE ""
    IN  before \o new_interface(t, d) \o after

\* update_existing_contexts(): every CONTEXT.llm that Path('.').rglob finds
UpdatedByUpdate(ctx) == {d \in DOMAIN ctx : Contains(ctx[d].content, "@interface:")}

\* update_contexts() of context.py skips the excluded directories
ReadByContext(ctx) ==
    {d \in DOMAIN ctx :
        /\ ~(\E i \in 1..Len(d) : parts(d)[i] \in EXCLUDE_DIRS)
        /\ ~(\E prefix \in SYSTEM_PREFIXES : startswith(relpath(d), prefix))}

UpdatedByContext(ctx) ==
    {d \in ReadByContext(ctx) : Contains(ctx[d].content, "@interface:")}

Rewrite(t, ctx, D, now) ==
    [d \in DOMAIN ctx |->
        IF d \in D THEN [content |-> merge(t, d, ctx[d].content), mtime |-> now]
        ELSE ctx[d]]

-----------------------------------------------------------------------------
(* Dependencies: analyze_dependencies                                      *)

\* the directory whose relative path is p
DirOf(t, p) == CHOOSE d \in DOMAIN t : relpath(d) = p

\* the file of a directory that has the given name
FileNamed(files, name) == CHOOSE f \in Range(files) : f.name = name

\* [m.split('/')[0] for m in modules]
first_segments(mods) == {split0(m, "/") : m \in DOMAIN mods}

\* the lines of a file that are taken for import statements
import_lines(content) ==
    SelectSeq(split(content, "\\n"),
        LAMBDA line : startswith(strip(line), "import ")
                      \/ startswith(strip(line), "from "))

\* the names that one file adds to module_deps
file_deps(content, mods) ==
    {split0(words(line)[2], ".") :
        line \in {l \in Range(import_lines(content)) :
                     startswith(l, "from ") /\ Len(words(l)) >= 2}}
    \cap first_segments(mods)

\* module_deps of one module
module_deps(t, mods, p) ==
    UNION {IF FileNamed(t[DirOf(t, p)], name).readable
           THEN file_deps(FileNamed(t[DirOf(t, p)], name).text, mods)
           ELSE {} :
              name \in Range(mods[p].files)}

\* list(module_deps): the elements of a set in an order that the hash seed
\* of the interpreter decides
Lists(S) == {l \in [1..Cardinality(S) -> S] : Range(l) = S}

\* analyze_dependencies(modules): the results that a run can return
analyze_dependencies(t, mods) ==
    LET D == {p \in DOMAIN mods : module_deps(t, mods, p) # {}}
    IN  {deps \in [D -> UNION {Lists(module_deps(t, mods, p)) : p \in D}] :
            \A p \in D : deps[p] \in Lists(module_deps(t, mods, p))}

\* dependencies.get(module_path, [])
get(deps, p) == IF p \in DOMAIN deps THEN deps[p] ELSE <<>>

-----------------------------------------------------------------------------
(* Descriptors that cannot be opened: open() raises in the middle of a     *)
(* loop over the directories and nothing catches it                        *)

\* q is the path of d or of a directory above d
IsPrefix(q, d) == Len(q) <= Len(d) /\ SubSeq(d, 1, Len(q)) = q

\* the orders in which os.walk and rglob can yield the directories: a
\* directory comes before the directories below it and the directories below
\* one directory follow each other, in the order the file system lists them
Preorders(D) ==
    {o \in Lists(D) :
        \A d \in D : \A k \in 0..Len(d) :
            LET q == SubSeq(d, 1, k)
                at == {i \in 1..Len(o) : IsPrefix(q, o[i])}
            IN  /\ \A i, j \in at : \A m \in i..j : m \in at
                /\ q \in D => \A i \in at : o[i] = q \/ \E j \in at : j < i /\ o[j] = q}

\* the directories that the loop has handled when it reaches the first
\* descriptor that cannot be opened
Before(o, F) ==
    {o[i] : i \in {j \in 1..Len(o) : \A k \in 1..j : o[k] \notin F}}

\* the outcomes of a loop over the descriptors of the directories D: the
\* directories handled, and whether open() has raised
LoopOutcomes(D, F) ==
    IF D \cap F = {} THEN {[done |-> D, failed |-> FALSE]}
    ELSE {[done |-> Before(o, F), failed |-> TRUE] : o \in Preorders(D)}

\* the descriptors that create_project_llm can read
readable_contexts(ctx, F) == [d \in DOMAIN ctx \ F |-> ctx[d]]

-----------------------------------------------------------------------------
(* Project descriptor: create_project_llm                                  *)

\* os.path.basename(os.getcwd())
cwd == "proj"

\* datetime.now().isoformat(): a different text at every tick of the clock,
\* without white space and without the characters @ and \
isoformat(now) == "T" \o ToString(now)

\* [l.strip() for l in section.split('\\n') if l.strip().startswith('-')]
dash_lines(section) ==
    LET ls == split(section, "\\n")
        kept == SelectSeq(ls, LAMBDA l : startswith(strip(l), "-"))
    IN  [i \in 1..Len(kept) |-> strip(kept[i])]

\* s[:n]
Take(s, n) == SubSeq(s, 1, IF Len(s) < n THEN Len(s) ELSE n)

existing_version(p) ==
    IF p.exists /\ Contains(p.content, "@version:")
    THEN strip(split0(split1(p.content, "@version:"), "\\n"))
    ELSE "1.0.0"

existing_changes(p) ==
    IF p.exists /\ Contains(p.content, "@recent_changes:")
    THEN Take(dash_lines(split1(p.content, "@recent_changes:")), 10)
    ELSE <<>>

existing_paths(p) ==
    IF p.exists /\ Contains(p.content, "@critical_paths:")
    THEN dash_lines(split0(split1(p.content, "@critical_paths:"), "@"))
    ELSE <<>>

\* the purpose that the @architecture line of a module shows
purpose_of(ctx, d) ==
    IF d \in DOMAIN ctx /\ Contains(ctx[d].content, "@purpose:")
    THEN strip(split0(split1(ctx[d].content, "@purpose:"), "\\n"))
    ELSE ""

desc(t, ctx, deps, p) ==
    p \o "/"
    \o (IF purpose_of(ctx, DirOf(t, p)) # ""
        THEN ": " \o purpose_of(ctx, DirOf(t, p)) ELSE "")
    \o (IF get(deps, p) # <<>>
        THEN " [@deps: " \o join(", ", get(deps, p)) \o "]" ELSE "")

RECURSIVE architecture(_, _, _, _)
architecture(t, ctx, deps, ps) ==
    IF ps = <<>> THEN ""
    ELSE "\\n- " \o desc(t, ctx, deps, Head(ps))
         \o architecture(t, ctx, deps, Tail(ps))

RECURSIVE dependency_graph(_, _)
dependency_graph(deps, ps) ==
    IF ps = <<>> THEN ""
    ELSE (IF get(deps, Head(ps)) # <<>>
          THEN "\\n" \o Head(ps) \o " -> " \o join(" -> ", get(deps, Head(ps)))
          ELSE "")
         \o dependency_graph(deps, Tail(ps))

RECURSIVE lines(_)
lines(ls) == IF ls = <<>> THEN "" ELSE "\\n" \o Head(ls) \o lines(Tail(ls))

\* the section that puts the placeholders after the lines it has read
critical_paths_Appended(p) ==
    lines(existing_paths(p))
    \o "\\n- [Analyze code to determine critical paths]"
    \o "\\n- [Add user flow paths here]"

critical_paths(p) ==
    IF existing_paths(p) # <<>> THEN lines(existing_paths(p))
    ELSE "\\n- [Analyze code to determine critical paths]"
         \o "\\n- [Add user flow paths here]"

\* Path('tests').glob('test_baseline_*.py')
baseline_tests(t) ==
    {f.name : f \in {g \in Range(FilesOf(t, <<"tests">>)) :
                        fnmatch(g.name, "test_baseline_*.py")}}

RECURSIVE test_coverage(_, _)
test_coverage(t, ps) ==
    IF ps = <<>> THEN ""
    ELSE LET module_name == basename(DirOf(t, Head(ps)))
             has_baseline ==
                 ("test_baseline_" \o module_name \o ".py") \in baseline_tests(t)
         IN  "\\n- " \o Head(ps) \o "/: "
             \o (IF has_baseline THEN "baseline tests" ELSE "no tests")
             \o test_coverage(t, Tail(ps))

change_desc(mods, p) ==
    IF Cardinality(DOMAIN mods) > Len(existing_changes(p))
    THEN "Added new modules" ELSE "Updated project structure"

\* the text that create_project_llm(modules, dependencies) writes
create_project_llm(t, ctx, p, mods, deps, now) ==
    LET ps == sorted(DOMAIN mods)
    IN  "@project: " \o cwd \o "\n"
        \o "@version: " \o existing_version(p) \o "\n"
        \o "@updated: " \o isoformat(now) \o "\n"
        \o "\n"
        \o "@architecture:"
        \o architecture(t, ctx, deps, ps)
        \o "\\n\\n@dependency_graph:"
        \o dependency_graph(deps, ps)
        \o "\\n\\n@critical_paths:"
        \o critical_paths(p)
        \o "\\n\\n@test_coverage:"
        \o test_coverage(t, ps)
        \o "\\n\\n@recent_changes:"
        \o "\\n- " \o isoformat(now) \o ": " \o change_desc(mods, p)
        \o lines(Take(existing_changes(p), 9))

\* create_initial_project_llm of the installer
initial_project_llm(now) ==
    "@project: " \o cwd \o "\n"
    \o "@version: 0.1.0\n"
    \o "@updated: " \o isoformat(now) \o "\n"
    \o "\n"
    \o "@architecture:\n"
    \o "# Modules will be added automatically by update.py\n"
    \o "\n"
    \o "@dependency_graph:\n"
    \o "# Dependencies will be mapped by update.py\n"
    \o "\n"
    \o "@test_coverage:\n"
    \o "# Test coverage will be tracked here\n"
    \o "\n"
    \o "@recent_changes:\n"
    \o "- " \o isoformat(now) \o ": Initial Claude Context Box installation\n"

-----------------------------------------------------------------------------
(* analyze_project_state                                                   *)

\* every CONTEXT.llm counts as outdated, whatever its age
outdated_contexts_All(t, ctx) == DOMAIN ctx

\* the CONTEXT.llm files that are older than a *.py file next to them
outdated_contexts(t, ctx) ==
    {d \in DOMAIN ctx :
        \E f \in Range(glob_py(FilesOf(t, d))) : f.mtime > ctx[d].mtime}

analyze_project_state(t, ctx) ==
    LET mods == find_modules(t, ctx)
    IN  [missing_contexts |-> {m \in DOMAIN mods : ~mods[m].has_context},
         outdated_contexts |-> outdated_contexts(t, ctx),
         total_modules |-> Cardinality(DOMAIN mods)]

-----------------------------------------------------------------------------
(* Source files and project trees of the bounded model                     *)

FunctionDef(name, col) ==
    [type |-> "FunctionDef", name |-> name, col_offset |-> col, body |-> <<>>]

ClassDef(name, col, body) ==
    [type |-> "ClassDef", name |-> name, col_offset |-> col, body |-> body]

ImportFrom ==
    [type |-> "ImportFrom", name |-> "", col_offset |-> 0, body |-> <<>>]

SourceFile(name, text, ast) ==
    [name |-> name, text |-> text, readable |-> TRUE, parses |-> TRUE, ast |-> ast,
     mtime |-> 1]

service_py ==
    SourceFile("service.py",
        "from models import User\n\nclass AuthService:\n    def login(self): pass\n",
        <<ImportFrom, ClassDef("AuthService", 0, <<FunctionDef("login", 4)>>)>>)

core_py ==
    SourceFile("core.py",
        "from auth.tokens import issue\n\ndef run(): pass\n",
        <<ImportFrom, FunctionDef("run", 0)>>)

env_py == SourceFile(".env.py", "", <<>>)

notes_txt ==
    [name |-> "notes.txt", text |-> "", parses |-> FALSE, ast |-> <<>>, mtime |-> 1]

\* the sets of directories whose paths have at most b segments in total
RECURSIVE DirSets(_, _)
DirSets(names, b) ==
    {{}} \cup UNION {{S \cup {d} : S \in DirSets(names, b - k), d \in [1..k -> names]} :
                       k \in 1..b}

\* the trees over these directories, each directory holding one of the
\* given lists of files
Trees(names, b, files) == UNION {[D -> files] : D \in DirSets(names, b)}

-----------------------------------------------------------------------------
(* The update command: main() of update.py, step by step                   *)

MaxOps == 3

RunSegments == {"auth", "models", "old_backup"}

MaxRunSegments == 2

\* a descriptor in the documented CONTEXT.llm format, written before the
\* sources were last changed
documented_context ==
    [content |->
        "@component: UserAuthService\n@type: service\n@deps: [models.User]\n"
        \o "@purpose: Handle user authentication\n\n"
        \o "@interface:\n- authenticate(email: str) -> dict\n\n"
        \o "@state:\n- session_timeout: 3600\n\n"
        \o "@behavior:\n- Sessions stored in Redis\n\n"
        \o "@errors:\n- AuthenticationError: Invalid credentials\n",
     mtime |-> 0]

\* the same descriptor, written when the sources were last changed
recent_context == [documented_context EXCEPT !.mtime = 1]

\* a descriptor of free notes, without the @interface marker
freeform_context ==
    [content |-> "Authentication module\n- owner: team-auth\n", mtime |-> 0]

NoProject == [exists |-> FALSE, content |-> ""]

\* a file that does not exist, and a directory that does not exist
NoFile == [exists |-> FALSE, content |-> ""]

\* .claude/venv_info.json: the environment that setup_venv has recorded
NoVenvInfo ==
    [exists |-> FALSE, readable |-> FALSE, has_python |-> FALSE, path |-> "",
     python |-> ""]

\* .claude: its files (name -> text) and its venv_info.json
NoDir == [exists |-> FALSE, files |-> <<>>, venv_info |-> NoVenvInfo]

\* the backup directory: the copies of .claude, CLAUDE.md and PROJECT.llm
NoBackup ==
    [exists |-> FALSE, claude_dir |-> NoDir, claude_md |-> NoFile, project |-> NoFile]

\* a project without .claude, CLAUDE.md, hooks, backup, environments,
\* pyproject.toml or procedure log
NoFiles ==
    [claude_dir |-> NoDir, claude_md |-> NoFile, hooks |-> FALSE,
     backup |-> NoBackup, venvs |-> {}, pyproject |-> "none", executables |-> {},
     procedure_log |-> NoFile]

\* no installer is running
NoInstaller ==
    [pc |-> "none", force |-> FALSE, no_venv |-> FALSE, backup_dir |-> "",
     existing_venvs |-> <<>>, returned |-> "none", action |-> "none", started |-> 0,
     installs |-> 0,
     original |-> [claude_dir |-> NoDir, claude_md |-> NoFile, project |-> NoFile]]

\* no function has returned
NoResult == "none"

\* the history that the properties refer to: the number of commands and edits
\* begun, of completed runs and of merges, the directories that held a
\* descriptor when the run began, PROJECT.llm as the last two runs left it,
\* and every CONTEXT.llm as the tool wrote it from the sources as they are now
NoHistory ==
    [ops |-> 0, runs |-> 0, merges |-> 0, before |-> {}, prev |-> "", cur |-> "",
     written |-> <<>>]

\* no file has been analysed
NoAnalysis == [file |-> "", classes |-> <<>>, functions |-> <<>>]

\* the descriptors that a step has written
Written(ctx, new) ==
    [d \in {e \in DOMAIN new : e \notin DOMAIN ctx \/ new[e] # ctx[e]} |-> new[d].content]

\* f overridden by g
Override(f, g) ==
    [d \in DOMAIN f \cup DOMAIN g |-> IF d \in DOMAIN g THEN g[d] ELSE f[d]]

InitRun ==
    /\ tree \in Trees(RunSegments, MaxRunSegments,
                     {<<service_py>>, <<core_py>>})
    /\ contexts \in {<<>>} \cup {[d \in {e} |-> documented_context] : e \in DOMAIN tree}
    /\ project \in {NoProject, [exists |-> TRUE, content |-> initial_project_llm(0)]}
    /\ clock = 2
    /\ pc = "idle"
    /\ state = analyze_project_state(<<>>, <<>>)
    /\ modules = <<>>
    /\ dependencies = <<>>
    /\ last = NoHistory
    /\ file_analysis = NoAnalysis
    /\ faulty = {}
    /\ disk = NoFiles
    /\ installer = NoInstaller
    /\ result = NoResult

\* main: state = analyze_project_state(), then apply_claude_rules()
AnalyzeProjectState ==
    /\ pc = "idle"
    /\ last.ops < MaxOps
    /\ state' = analyze_project_state(tree, contexts)
    /\ pc' = "create"
    /\ last' = [last EXCEPT !.before = DOMAIN contexts, !.ops = @ + 1]
    /\ UNCHANGED <<tree, contexts, project, clock, modules, dependencies,
                 file_analysis, faulty,
                 disk, installer, result>>

\* main, step 2: create_missing_contexts() if a module misses its descriptor;
\* an open() that raises ends the command
CreateMissingContexts ==
    /\ pc = "create"
    /\ \E r \in IF state.missing_contexts # {}
                 THEN LoopOutcomes(CreatedByUpdate(tree, contexts), faulty)
                 ELSE {[done |-> {}, failed |-> FALSE]} :
           /\ contexts' = WriteNew(tree, contexts, r.done, clock)
           /\ pc' = IF r.failed THEN "aborted" ELSE "update"
    /\ clock' = clock + 1
    /\ last' = [last EXCEPT !.written = Override(@, Written(contexts, contexts'))]
    /\ UNCHANGED <<tree, project, state, modules, dependencies,
                 file_analysis, faulty,
                 disk, installer, result>>

\* main, step 3: update_existing_contexts() if a descriptor is outdated; it
\* opens every CONTEXT.llm, and an open() that raises ends the command
UpdateExistingContexts ==
    /\ pc = "update"
    /\ \E r \in IF state.outdated_contexts # {}
                 THEN LoopOutcomes(DOMAIN contexts, faulty)
                 ELSE {[done |-> {}, failed |-> FALSE]} :
           /\ contexts' = Rewrite(tree, contexts,
                                  r.done \cap UpdatedByUpdate(contexts), clock)
           /\ pc' = IF r.failed THEN "aborted" ELSE "scan"
    /\ clock' = clock + 1
    /\ last' = [last EXCEPT !.written = Override(@, Written(contexts, contexts')),
                            !.merges = IF state.outdated_contexts # {} THEN @ + 1 ELSE @]
    /\ UNCHANGED <<tree, project, state, modules, dependencies,
                 file_analysis, faulty,
                 disk, installer, result>>

\* main, step 4: modules = find_modules()
FindModules ==
    /\ pc = "scan"
    /\ modules' = find_modules(tree, contexts)
    /\ pc' = "deps"
    /\ UNCHANGED <<tree, contexts, project, clock, state, dependencies, last,
                 file_analysis, faulty,
                 disk, installer, result>>

\* step 4 without the dependency computation
AnalyzeDependencies_Skipped ==
    /\ pc = "deps"
    /\ pc' = "write"
    /\ UNCHANGED <<tree, contexts, project, clock, state, modules, dependencies,
                 last, file_analysis, faulty,
                 disk, installer, result>>

\* main, step 4: dependencies = analyze_dependencies(modules)
AnalyzeDependencies ==
    /\ pc = "deps"
    /\ dependencies' \in analyze_dependencies(tree, modules)
    /\ pc' = "write"
    /\ UNCHANGED <<tree, contexts, project, clock, state, modules, last,
                 file_analysis, faulty,
                 disk, installer, result>>

\* main, step 4: create_project_llm(modules, dependencies)
CreateProjectLlm ==
    /\ pc = "write"
    /\ project' = [exists |-> TRUE,
                   content |-> create_project_llm(tree,
                                  readable_contexts(contexts, faulty), project,
                                  modules, dependencies, clock)]
    /\ clock' = clock + 1
    /\ pc' = "health"
    /\ UNCHANGED <<tree, contexts, state, modules, dependencies, last,
                 file_analysis, faulty,
                 disk, installer, result>>

\* main, steps 5 and 6: create_format_md() and validate_project_health()
\* write nothing outside .claude; the command returns
Finish ==
    /\ pc = "health"
    /\ pc' = "idle"
    /\ last' = [last EXCEPT !.runs = @ + 1, !.prev = last.cur, !.cur = project.content]
    /\ UNCHANGED <<tree, contexts, project, clock, state, modules, dependencies,
                 file_analysis, faulty,
                 disk, installer, result>>

NextRun ==
    \/ AnalyzeProjectState
    \/ CreateMissingContexts
    \/ UpdateExistingContexts
    \/ FindModules
    \/ AnalyzeDependencies
    \/ CreateProjectLlm
    \/ Finish

SpecRun == InitRun /\ [][NextRun]_vars

-----------------------------------------------------------------------------
(* The descriptor commands of context.py, the edits of the user, and the   *)
(* update command, over one project                                        *)

\* s.replace(old, new)
replace(s, old, new) == join(new, split(s, old))

\* ctx init: init_contexts()
CtxInit ==
    /\ pc = "idle"
    /\ last.ops < MaxOps
    /\ CreatedByInit(tree, contexts) # {}
    /\ \E r \in LoopOutcomes(CreatedByInit(tree, contexts), faulty) :
           contexts' = WriteNew(tree, contexts, r.done, clock)
    /\ clock' = clock + 1
    /\ last' = [last EXCEPT !.written = Override(@, Written(contexts, contexts')),
                            !.ops = @ + 1]
    /\ UNCHANGED <<tree, project, pc, state, modules, dependencies,
                 file_analysis, faulty,
                 disk, installer, result>>

\* ctx update: update_contexts()
CtxUpdate ==
    /\ pc = "idle"
    /\ last.ops < MaxOps
    /\ UpdatedByContext(contexts) # {}
    /\ \E r \in LoopOutcomes(ReadByContext(contexts), faulty) :
           contexts' = Rewrite(tree, contexts,
                               r.done \cap UpdatedByContext(contexts), clock)
    /\ clock' = clock + 1
    /\ last' = [last EXCEPT !.written = Override(@, Written(contexts, contexts')),
                            !.merges = @ + 1,
                            !.ops = @ + 1]
    /\ UNCHANGED <<tree, project, pc, state, modules, dependencies,
                 file_analysis, faulty,
                 disk, installer, result>>

\* the user replaces the placeholder of the purpose by a text
EditPurpose(d) ==
    /\ pc = "idle"
    /\ last.ops < MaxOps
    /\ Contains(contexts[d].content, "[Add module purpose]")
    /\ contexts' = [contexts EXCEPT ![d] =
           [content |-> replace(@.content, "[Add module purpose]",
                                "Handle user authentication"),
            mtime |-> clock]]
    /\ clock' = clock + 1
    /\ last' = [last EXCEPT !.ops = @ + 1]
    /\ UNCHANGED <<tree, project, pc, state, modules, dependencies,
                 file_analysis, faulty,
                 disk, installer, result>>

state_section == "@state:\n- session_timeout: 3600\n\n"

\* the user adds a section of notes in front of one of the markers
InsertSection(d, marker) ==
    /\ pc = "idle"
    /\ last.ops < MaxOps
    /\ Contains(contexts[d].content, marker)
    /\ ~Contains(contexts[d].content, "@state:")
    /\ contexts' = [contexts EXCEPT ![d] =
           [content |-> split0(@.content, marker) \o state_section \o marker
                        \o From(@.content, Find(@.content, marker) + Len(marker)),
            mtime |-> clock]]
    /\ clock' = clock + 1
    /\ last' = [last EXCEPT !.ops = @ + 1]
    /\ UNCHANGED <<tree, project, pc, state, modules, dependencies,
                 file_analysis, faulty,
                 disk, installer, result>>

\* the user adds a public top-level function to the first source file
AddFunction(d) ==
    /\ pc = "idle"
    /\ last.ops < MaxOps
    /\ ~Contains(tree[d][1].text, "def logout")
    /\ tree' = [tree EXCEPT ![d][1] =
           [@ EXCEPT !.text = @ \o "\ndef logout(): pass\n",
                     !.ast = Append(@, FunctionDef("logout", 0)),
                     !.mtime = clock]]
    /\ clock' = clock + 1
    /\ last' = [last EXCEPT !.written = <<>>, !.ops = @ + 1]
    /\ UNCHANGED <<contexts, project, pc, state, modules, dependencies,
                 file_analysis, faulty,
                 disk, installer, result>>

InitMerge ==
    /\ tree = (<<"auth">> :> <<service_py>>)
    /\ contexts \in {<<>>, <<"auth">> :> documented_context,
                     <<"auth">> :> recent_context,
                     <<"auth">> :> freeform_context}
    /\ project = NoProject
    /\ clock = 2
    /\ pc = "idle"
    /\ state = analyze_project_state(<<>>, <<>>)
    /\ modules = <<>>
    /\ dependencies = <<>>
    /\ last = NoHistory
    /\ file_analysis = NoAnalysis
    /\ faulty = {}
    /\ disk = NoFiles
    /\ installer = NoInstaller
    /\ result = NoResult

NextMerge ==
    \/ NextRun
    \/ CtxInit
    \/ CtxUpdate
    \/ \E d \in DOMAIN contexts : EditPurpose(d)
    \/ \E d \in DOMAIN contexts : \E marker \in {"@interface:", "@behavior:"} :
           InsertSection(d, marker)
    \/ \E d \in DOMAIN tree : AddFunction(d)

SpecMerge == InitMerge /\ [][NextMerge]_vars

-----------------------------------------------------------------------------
(* The scan alone: find_modules() over the trees of the bounded model      *)

ScanSegments == {"auth", "models", "venv", ".claude", "lib", "old_backup", "app.tmp"}

MaxSegments == 3

\* the root may hold source files of its own (setup.py)
WithRoot(t) == [d \in DOMAIN t \cup {<<>>} |-> IF d = <<>> THEN <<core_py>> ELSE t[d]]

InitScan ==
    /\ \E t \in Trees(ScanSegments, MaxSegments, {<<service_py>>, <<env_py, notes_txt>>}) :
           tree \in {t, WithRoot(t)}
    /\ contexts = <<>>
    /\ project = NoProject
    /\ clock = 2
    /\ pc = "scan"
    /\ state = analyze_project_state(<<>>, <<>>)
    /\ modules = <<>>
    /\ dependencies = <<>>
    /\ last = NoHistory
    /\ file_analysis = NoAnalysis
    /\ faulty = {}
    /\ disk = NoFiles
    /\ installer = NoInstaller
    /\ result = NoResult

SpecScan == InitScan /\ [][FindModules]_vars

-----------------------------------------------------------------------------
(* The symbol extraction alone: analyze_python_file over the files of the  *)
(* bounded model                                                           *)

MaxDepth == 2

MaxNodes == 1

\* a declaration node of the syntax tree, with the declarations of its body
Node(type, name, col, body) ==
    [type |-> type, name |-> name, col_offset |-> col, body |-> body]

DeclaredNames == {"run", "_hidden"}

\* the declarations at a column, nested at most depth levels deep
RECURSIVE NodesAt(_, _)
NodesAt(col, depth) ==
    {Node(type, name, col, <<>>) :
        type \in {"FunctionDef", "ClassDef"}, name \in DeclaredNames}
    \cup (IF depth = 0 THEN {}
          ELSE {Node(type, name, col, <<b>>) :
                   type \in {"FunctionDef", "ClassDef"}, name \in DeclaredNames,
                   b \in NodesAt(col + 4, depth - 1)})

RECURSIVE Spaces(_)
Spaces(n) == IF n = 0 THEN "" ELSE " " \o Spaces(n - 1)

\* the source text that parses to the given declarations
RECURSIVE unparse(_)
unparse(nodes) ==
    IF nodes = <<>> THEN ""
    ELSE LET n == Head(nodes)
             head == IF n.type = "ClassDef"
                     THEN "class " \o n.name \o ":\n"
                     ELSE "def " \o n.name \o "():\n"
             body == IF n.body = <<>>
                     THEN Spaces(n.col_offset + 4) \o "pass\n"
                     ELSE unparse(n.body)
         IN  Spaces(n.col_offset) \o head \o body \o unparse(Tail(nodes))

\* the source files of up to MaxNodes top-level declarations
ParsedFiles ==
    {SourceFile("jobs.py", unparse(ast), ast) :
        ast \in UNION {[1..k -> NodesAt(0, MaxDepth)] : k \in 1..MaxNodes}}

\* analyze_python_file(py_file) on a file of the directory
AnalyzePythonFile(d, i) ==
    /\ pc = "idle"
    /\ file_analysis.file = ""
    /\ file_analysis' = [file |-> tree[d][i].name,
                         classes |-> analyze_python_file(tree[d][i]).classes,
                         functions |-> analyze_python_file(tree[d][i]).functions]
    /\ UNCHANGED <<tree, contexts, project, clock, pc, state, modules, dependencies,
                   last, faulty,
                   disk, installer, result>>

InitExtract ==
    /\ tree \in {<<"jobs">> :> <<f>> : f \in ParsedFiles}
    /\ contexts = <<>>
    /\ project = NoProject
    /\ clock = 2
    /\ pc = "idle"
    /\ state = analyze_project_state(<<>>, <<>>)
    /\ modules = <<>>
    /\ dependencies = <<>>
    /\ last = NoHistory
    /\ file_analysis = NoAnalysis
    /\ faulty = {}
    /\ disk = NoFiles
    /\ installer = NoInstaller
    /\ result = NoResult

NextExtract == \E d \in DOMAIN tree : \E i \in 1..Len(tree[d]) : AnalyzePythonFile(d, i)

SpecExtract == InitExtract /\ [][NextExtract]_vars

-----------------------------------------------------------------------------
(* The update command over files that cannot be read or parsed and         *)
(* descriptors that cannot be opened                                       *)

\* the file with a statement that ast.parse rejects
Unparsable(f) == [f EXCEPT !.text = @ \o "def (:\n", !.parses = FALSE]

\* the file whose bytes open() or read() rejects
Unreadable(f) == [f EXCEPT !.readable = FALSE]

FaultFiles ==
    { <<service_py, core_py>>,
      <<Unparsable(service_py), core_py>>,
      <<Unreadable(service_py), core_py>>,
      <<core_py>> }

InitFault ==
    /\ tree \in [{<<"auth">>, <<"models">>} -> FaultFiles]
    /\ contexts \in {<<>>, <<"auth">> :> documented_context,
                     [d \in {<<"auth">>, <<"models">>} |-> documented_context]}
    /\ project = NoProject
    /\ clock = 2
    /\ pc = "idle"
    /\ state = analyze_project_state(<<>>, <<>>)
    /\ modules = <<>>
    /\ dependencies = <<>>
    /\ last = NoHistory
    /\ file_analysis = NoAnalysis
    /\ faulty \in SUBSET {<<"auth">>, <<"models">>}
    /\ disk = NoFiles
    /\ installer = NoInstaller
    /\ result = NoResult

SpecFault == InitFault /\ [][NextRun]_vars

-----------------------------------------------------------------------------
(* The update command over files that import in either form                *)

Import ==
    [type |-> "Import", name |-> "", col_offset |-> 0, body |-> <<>>]

\* a file that imports with `import X`
client_py ==
    SourceFile("client.py",
        "import models\n\ndef fetch(): pass\n",
        <<Import, FunctionDef("fetch", 0)>>)

\* a file whose `from X import` is not its first statement
late_py ==
    SourceFile("late.py",
        "import os\nfrom models import User\n\ndef load(): pass\n",
        <<Import, ImportFrom, FunctionDef("load", 0)>>)

InitDeps ==
    /\ tree \in [{<<"auth">>, <<"models">>} ->
                    {<<service_py>>, <<client_py>>, <<late_py>>, <<core_py>>}]
    /\ contexts = <<>>
    /\ project = NoProject
    /\ clock = 2
    /\ pc = "idle"
    /\ state = analyze_project_state(<<>>, <<>>)
    /\ modules = <<>>
    /\ dependencies = <<>>
    /\ last = NoHistory
    /\ file_analysis = NoAnalysis
    /\ faulty = {}
    /\ disk = NoFiles
    /\ installer = NoInstaller
    /\ result = NoResult

SpecDeps == InitDeps /\ [][NextRun]_vars

-----------------------------------------------------------------------------
(* The update command over a project with two directories of tests, or    *)
(* with a directory in the singular and one in the plural                  *)

InitRoles ==
    /\ \E D \in {{<<"tests">>, <<"testing">>}, {<<"tests">>, <<"testing">>, <<"auth">>},
                  {<<"model">>, <<"models">>}} :
           tree \in [D -> {<<service_py>>, <<core_py>>}]
    /\ contexts = <<>>
    /\ project = NoProject
    /\ clock = 2
    /\ pc = "idle"
    /\ state = analyze_project_state(<<>>, <<>>)
    /\ modules = <<>>
    /\ dependencies = <<>>
    /\ last = NoHistory
    /\ file_analysis = NoAnalysis
    /\ faulty = {}
    /\ disk = NoFiles
    /\ installer = NoInstaller
    /\ result = NoResult

SpecRoles == InitRoles /\ [][NextRun]_vars

-----------------------------------------------------------------------------
(* The installer: CLAUDE.md                                                *)
(* The texts are written in ASCII: an emoji is written as its name in      *)
(* square brackets, the Cyrillic titles are transliterated and the arrow   *)
(* is written ->, the backquote is written as an apostrophe.              *)

\* the emoji that mark a section of the template in merge_claude_md
TemplateEmoji ==
    { "[siren]", "[no entry]", "[clipboard]", "[zap]", "[wrench]", "[pin]",
      "[target]", "[chart]", "[cycle]" }

\* download_template finds no claude_context/templates directory and
\* returns None: the template is get_basic_claude_template()
get_basic_claude_template ==
    "# Claude Context Box Project\n"
    \o "\n"
    \o "## [siren] KRITICHESKIE PRAVILA (HIGHEST PRIORITY)\n"
    \o "\n"
    \o "1. Priorities: Stability First -> Clean Code -> DRY -> KISS -> SOLID\n"
    \o "2. NEVER modify without reading\n"
    \o "3. ALWAYS test before and after\n"
    \o "4. MUST follow 9-step procedure\n"
    \o "\n"
    \o "## [zap] KOMANDY\n"
    \o "\n"
    \o "- 'u' or 'update' -> Universal update\n"
    \o "- 'c' or 'check' -> Health check\n"
    \o "- 's' or 'structure' -> Show structure\n"
    \o "\n"
    \o "## [clipboard] 9-STEP PROCEDURE\n"
    \o "\n"
    \o "1. Read PROJECT.llm\n"
    \o "2. Find target module\n"
    \o "3. Read module CONTEXT.llm\n"
    \o "4. Analyze current code\n"
    \o "5. Create baseline tests\n"
    \o "6. Run baseline tests\n"
    \o "7. Make minimal changes\n"
    \o "8. Test again (STOP if fails)\n"
    \o "9. Update contexts\n"
    \o "\n"
    \o "@.claude/prompt.md\n"
    \o "@.claude/format.md\n"
    \o "\n"
    \o "---\n"
    \o "Claude Context Box v{{ version }} - {{ timestamp }}"

\* os.environ.get('CLAUDE_VERSION', '0.1.0')
version == "0.1.0"

\* the text that create_claude_md writes
create_claude_md(now) ==
    replace(replace(get_basic_claude_template, "{{ version }}", version),
            "{{ timestamp }}", isoformat(now))

\* re.search(r''''bash\n# When user types exactly:(.+?)'''', content, re.DOTALL):
\* the text of group 1, "" when there is no match
CommandsMark == "'''bash\n# When user types exactly:"

user_commands(content) ==
    LET rest == From(content, Find(content, CommandsMark) + Len(CommandsMark))
    IN  IF Contains(content, CommandsMark) /\ Contains(From(rest, 2), "'''")
        THEN Char(rest, 1) \o split0(From(rest, 2), "'''")
        ELSE ""

\* re.findall(r'^##\s+(.+)$', content, re.MULTILINE) for headings that stand
\* on one line: the titles of the lines "## title", in their order
IsHeading(line) ==
    /\ startswith(line, "##")
    /\ Len(line) >= 4
    /\ Char(line, 3) \in Whitespace
    /\ lstrip(From(line, 3)) # ""

section_titles(content) ==
    LET ls == SelectSeq(split(content, "\n"), IsHeading)
    IN  [i \in 1..Len(ls) |-> lstrip(From(ls[i], 3))]

\* re.search(rf'^##\s+{re.escape(section)}.*?(?=^##|\Z)', content,
\*           re.MULTILINE | re.DOTALL).group(0).strip():
\* from the first heading line whose title begins with the section, up to
\* the next line that begins with ## (or to the end of the text)
section_match(content, section) ==
    LET ls    == split(content, "\n")
        heads == {i \in 1..Len(ls) :
                     IsHeading(ls[i]) /\ startswith(lstrip(From(ls[i], 3)), section)}
        i     == CHOOSE h \in heads : \A k \in heads : h <= k
        ends  == {j \in (i + 1)..Len(ls) : startswith(ls[j], "##")}
        j     == IF ends = {} THEN Len(ls) + 1
                 ELSE CHOOSE e \in ends : \A k \in ends : e <= k
    IN  strip(join("\n", SubSeq(ls, i, j - 1)))

\* the sections that merge_claude_md takes for sections of the user
IsUserSection(section, template) ==
    /\ section \notin Range(section_titles(template))
    /\ ~(\E emoji \in TemplateEmoji : Contains(section, emoji))

RECURSIVE append_user_sections(_, _, _, _)
append_user_sections(new_content, sections, existing_content, template) ==
    IF sections = <<>> THEN new_content
    ELSE append_user_sections(
             IF IsUserSection(Head(sections), template)
             THEN new_content \o "\n\n"
                  \o section_match(existing_content, Head(sections)) \o "\n"
             ELSE new_content,
             Tail(sections), existing_content, template)

\* the text that merge_claude_md writes over the existing CLAUDE.md; the
\* second assignment to new_content starts again from the template, so the
\* version is not replaced
merge_claude_md(existing_content, now) ==
    LET template == get_basic_claude_template
        replaced == replace(template, "{{ timestamp }}", isoformat(now))
        mapped   ==
            IF /\ \/ Contains(existing_content, ".venv/bin/python3")
                  \/ Contains(existing_content, "$(python3 .claude/get_python.py)")
               /\ user_commands(existing_content) # ""
               /\ user_commands(replaced) # ""
            THEN replace(replaced,
                         CommandsMark \o user_commands(replaced) \o "'''",
                         CommandsMark \o user_commands(existing_content) \o "'''")
            ELSE replaced
        documented ==
            IF Contains(existing_content, "# Previous User Documentation")
            THEN mapped \o "\n\n---\n\n# Previous User Documentation\n\n"
                 \o strip(split1(existing_content, "# Previous User Documentation"))
            ELSE mapped
    IN  append_user_sections(documented, section_titles(existing_content),
                             existing_content, template)

-----------------------------------------------------------------------------
(* Projects in which some modules have a descriptor and others have none   *)

InitCreate ==
    /\ tree \in [{<<"auth">>, <<"models">>} -> {<<service_py>>, <<core_py>>}]
    /\ \E D \in SUBSET {<<"auth">>, <<"models">>} :
           contexts \in [D -> {documented_context, freeform_context}]
    /\ project = NoProject
    /\ clock = 2
    /\ pc = "idle"
    /\ state = analyze_project_state(<<>>, <<>>)
    /\ modules = <<>>
    /\ dependencies = <<>>
    /\ last = NoHistory
    /\ file_analysis = NoAnalysis
    /\ faulty = {}
    /\ disk = NoFiles
    /\ installer = NoInstaller
    /\ result = NoResult

NextCreate ==
    \/ NextRun
    \/ CtxInit

SpecCreate == InitCreate /\ [][NextCreate]_vars

-----------------------------------------------------------------------------
(* Critical paths that the user has written into PROJECT.llm               *)

\* the entries that create_project_llm writes when it has read none
Placeholders ==
    "\\n- [Analyze code to determine critical paths]"
    \o "\\n- [Add user flow paths here]"

\* the entries of the user
AuthoredPaths ==
    {<<"- auth/service.py: login flow">>,
     <<"- auth/service.py: login flow", "- models/user.py: signup flow">>,
     <<"- auth/service.py: mail to admin@example.com",
       "- models/user.py: signup flow">>}

\* the user replaces the placeholders of @critical_paths by entries, in the
\* layout of the file
EditCriticalPaths ==
    /\ pc = "idle"
    /\ project.exists
    /\ Contains(project.content, Placeholders)
    /\ \E entries \in AuthoredPaths :
           project' = [project EXCEPT
               !.content = replace(@, Placeholders, lines(entries))]
    /\ UNCHANGED <<tree, contexts, clock, pc, state, modules, dependencies,
                   last, file_analysis, faulty, disk, installer, result>>

InitPaths ==
    /\ tree \in {<<"auth">> :> <<service_py>>,
                 (<<"auth">> :> <<service_py>>) @@ (<<"models">> :> <<core_py>>)}
    /\ contexts = <<>>
    /\ project \in {NoProject, [exists |-> TRUE, content |-> initial_project_llm(0)]}
    /\ clock = 2
    /\ pc = "idle"
    /\ state = analyze_project_state(<<>>, <<>>)
    /\ modules = <<>>
    /\ dependencies = <<>>
    /\ last = NoHistory
    /\ file_analysis = NoAnalysis
    /\ faulty = {}
    /\ disk = NoFiles
    /\ installer = NoInstaller
    /\ result = NoResult

NextPaths ==
    \/ NextRun
    \/ EditCriticalPaths

SpecPaths == InitPaths /\ [][NextPaths]_vars

-----------------------------------------------------------------------------
(* The installer: ClaudeContextInstaller.run(), step by step               *)

\* PROJECT.llm as a file
ProjectFile(p) == [exists |-> p.exists, content |-> p.content]

\* shutil.copytree and shutil.copy2 of backup_existing: the copies that are
\* made before the first copy that raises, in the order of the code; a
\* copytree that raises leaves a part of the tree behind
backup_existing(d, p) ==
    LET parts_of_dir ==
            {[d.claude_dir EXCEPT !.files = [n \in S |-> d.claude_dir.files[n]]] :
                 S \in SUBSET DOMAIN d.claude_dir.files}
        full == [exists |-> TRUE, claude_dir |-> d.claude_dir,
                 claude_md |-> d.claude_md, project |-> ProjectFile(p)]
    IN  {[backup |-> full, failed |-> FALSE]}
        \cup {[backup |-> [full EXCEPT !.claude_dir = c, !.claude_md = NoFile,
                                        !.project = NoFile],
               failed |-> TRUE] : c \in IF d.claude_dir.exists THEN parts_of_dir ELSE {}}
        \cup {[backup |-> [full EXCEPT !.claude_md = NoFile, !.project = NoFile],
               failed |-> TRUE] : x \in IF d.claude_md.exists THEN {1} ELSE {}}
        \cup {[backup |-> [full EXCEPT !.project = NoFile],
               failed |-> TRUE] : x \in IF p.exists THEN {1} ELSE {}}

\* shutil.rmtree(self.claude_dir): the directory is gone, or rmtree raises
\* after it has removed some of the files
rmtree(dir) ==
    {[dir |-> NoDir, failed |-> FALSE]}
    \cup {[dir |-> [dir EXCEPT !.files = [n \in S |-> dir.files[n]]], failed |-> TRUE] :
            S \in SUBSET DOMAIN dir.files}

\* detect_project_type()['has_poetry']
has_poetry(d) == d.pyproject = "poetry"

\* setup_venv: the environment that is selected among the existing ones
select_venv_First(existing_venvs, poetry) == existing_venvs[1]

select_venv(existing_venvs, poetry) ==
    IF poetry /\ ".venv" \in Range(existing_venvs) THEN ".venv" ELSE existing_venvs[1]

\* python_exe of an environment
python_of(path) == path \o "/bin/python3"

venv_info(path) ==
    [exists |-> TRUE, readable |-> TRUE, has_python |-> TRUE, path |-> path,
     python |-> python_of(path)]

\* install_core_files: prompt.md and the scripts of get_embedded_scripts()
core_files ==
    [n \in {"prompt.md", "update.py", "check.py", "help.py", "context.py",
            "validation.py", "cleancode.py", "get_python.py"} |->
        "claude_context/scripts"]

\* an exception leaves run() through its handler: run() returns False
Fails ==
    installer' = [installer EXCEPT !.pc = "done", !.returned = "False"]

Goes(next) == installer' = [installer EXCEPT !.pc = next]

\* run(): if self.check_existing_installation()
CheckExistingInstallation ==
    /\ installer.pc = "run"
    /\ Goes(IF installer.force
               /\ (disk.claude_dir.exists \/ disk.claude_md.exists \/ project.exists)
            THEN "backup" ELSE "venv")
    /\ UNCHANGED <<tree, contexts, project, clock, pc, state, modules, dependencies,
                   last, file_analysis, faulty, disk, result>>

\* the force mode without its backup
BackupExisting_Skipped ==
    /\ installer.pc = "backup"
    /\ Goes("rmtree")
    /\ UNCHANGED <<tree, contexts, project, clock, pc, state, modules, dependencies,
                   last, file_analysis, faulty, disk, result>>

\* run(), force mode: self.backup_existing()
BackupExisting ==
    /\ installer.pc = "backup"
    /\ \E r \in backup_existing(disk, project) :
           /\ disk' = [disk EXCEPT !.backup = r.backup]
           /\ installer' = [installer EXCEPT
                  !.pc = IF r.failed THEN "done" ELSE "rmtree",
                  !.returned = IF r.failed THEN "False" ELSE @,
                  !.backup_dir = ".claude_backup_" \o isoformat(clock)]
    /\ clock' = clock + 1
    /\ UNCHANGED <<tree, contexts, project, pc, state, modules, dependencies,
                   last, file_analysis, faulty, result>>

\* run(), force mode: shutil.rmtree(self.claude_dir)
RemoveClaudeDir ==
    /\ installer.pc = "rmtree"
    /\ \E r \in IF disk.claude_dir.exists THEN rmtree(disk.claude_dir)
                 ELSE {[dir |-> NoDir, failed |-> FALSE]} :
           /\ disk' = [disk EXCEPT !.claude_dir = r.dir]
           /\ IF r.failed THEN Fails ELSE Goes("unlink")
    /\ UNCHANGED <<tree, contexts, project, clock, pc, state, modules, dependencies,
                   last, file_analysis, faulty, result>>

\* run(), force mode: file_path.unlink() for CLAUDE.md and PROJECT.llm; an
\* unlink that raises leaves the file and the files after it
UnlinkRootFiles ==
    /\ installer.pc = "unlink"
    /\ \/ /\ disk' = [disk EXCEPT !.claude_md = NoFile]
          /\ project' = NoProject
          /\ Goes("venv")
       \/ /\ disk.claude_md.exists
          /\ UNCHANGED <<disk, project>>
          /\ Fails
       \/ /\ project.exists
          /\ disk' = [disk EXCEPT !.claude_md = NoFile]
          /\ UNCHANGED project
          /\ Fails
    /\ UNCHANGED <<tree, contexts, clock, pc, state, modules, dependencies,
                   last, file_analysis, faulty, result>>

\* run(): self.setup_venv() unless no_venv; find_existing_venvs() returns the
\* environments in the order of os.walk; without one, python -m venv creates
\* .venv for a Poetry project and venv otherwise, or fails
SetupVenv ==
    /\ installer.pc = "venv"
    /\ \/ /\ installer.no_venv
          /\ UNCHANGED disk
          /\ Goes("core")
       \/ /\ ~installer.no_venv
          /\ disk.venvs # {}
          /\ \E found \in Lists(disk.venvs) :
                /\ disk' = [disk EXCEPT
                       !.claude_dir.exists = TRUE,
                       !.claude_dir.venv_info =
                           venv_info(select_venv(found, has_poetry(disk)))]
                /\ installer' = [installer EXCEPT !.pc = "core",
                                                  !.existing_venvs = found]
       \/ /\ ~installer.no_venv
          /\ disk.venvs = {}
          /\ \/ LET venv_path == IF has_poetry(disk) THEN ".venv" ELSE "venv"
                IN  disk' = [disk EXCEPT
                        !.venvs = {venv_path},
                        !.claude_dir.exists = TRUE,
                        !.claude_dir.venv_info = venv_info(venv_path)]
             \/ UNCHANGED disk
          /\ Goes("core")
    /\ UNCHANGED <<tree, contexts, project, clock, pc, state, modules, dependencies,
                   last, file_analysis, faulty, result>>

\* run(): self.install_core_files()
InstallCoreFiles ==
    /\ installer.pc = "core"
    /\ disk' = [disk EXCEPT !.claude_dir.exists = TRUE,
                            !.claude_dir.files = Override(@, core_files)]
    /\ Goes("claude_md")
    /\ UNCHANGED <<tree, contexts, project, clock, pc, state, modules, dependencies,
                   last, file_analysis, faulty, result>>

\* run(): create_claude_md() in force mode or without a CLAUDE.md,
\* merge_claude_md() otherwise
CreateOrMergeClaudeMd ==
    /\ installer.pc = "claude_md"
    /\ disk' = [disk EXCEPT !.claude_md =
           [exists |-> TRUE,
            content |-> IF installer.force \/ ~disk.claude_md.exists
                        THEN create_claude_md(clock)
                        ELSE merge_claude_md(disk.claude_md.content, clock)]]
    /\ clock' = clock + 1
    /\ Goes("project_llm")
    /\ UNCHANGED <<tree, contexts, project, pc, state, modules, dependencies,
                   last, file_analysis, faulty, result>>

\* run(): self.create_initial_project_llm()
CreateInitialProjectLlm ==
    /\ installer.pc = "project_llm"
    /\ project' = IF project.exists THEN project
                  ELSE [exists |-> TRUE, content |-> initial_project_llm(clock)]
    /\ clock' = clock + 1
    /\ Goes("hooks")
    /\ UNCHANGED <<tree, contexts, pc, state, modules, dependencies,
                   last, file_analysis, faulty, disk, result>>

\* run(): self.create_hooks_config()
CreateHooksConfig ==
    /\ installer.pc = "hooks"
    /\ disk' = [disk EXCEPT !.hooks = TRUE]
    /\ Goes("update")
    /\ UNCHANGED <<tree, contexts, project, clock, pc, state, modules, dependencies,
                   last, file_analysis, faulty, result>>

\* run(): self.run_initial_update() starts .claude/update.py, which
\* install_core_files has written, in a subprocess
RunInitialUpdate ==
    /\ installer.pc = "update"
    /\ Goes("subprocess")
    /\ UNCHANGED <<tree, contexts, project, clock, pc, state, modules, dependencies,
                   last, file_analysis, faulty, disk, result>>

\* the subprocess has ended, with or without a traceback: run() returns True
Return ==
    /\ installer.pc = "subprocess"
    /\ pc = "aborted" \/ (pc = "idle" /\ last.runs = 1)
    /\ installer' = [installer EXCEPT !.pc = "done", !.returned = "True"]
    /\ UNCHANGED <<tree, contexts, project, clock, pc, state, modules, dependencies,
                   last, file_analysis, faulty, disk, result>>

\* an existing installation
installed_dir ==
    [exists |-> TRUE,
     files |-> ("update.py" :> "0.0.9" @@ "notes.md" :> "my notes"),
     venv_info |-> NoVenvInfo]

installed_claude_md == [exists |-> TRUE, content |-> create_claude_md(0)]

\* a CLAUDE.md to which the user has added a section
customized_claude_md ==
    [exists |-> TRUE,
     content |-> create_claude_md(0) \o "\n\n## Deployment\n\nUse make deploy.\n"]

\* a CLAUDE.md to which the user has added a section with a subsection
subsectioned_claude_md ==
    [exists |-> TRUE,
     content |-> create_claude_md(0)
                 \o "\n\n## Deployment\n\nUse make deploy.\n\n### Staging\n\nUse make stage.\n"]

InitInstall ==
    /\ tree \in {<<>>, <<"auth">> :> <<service_py>>}
    /\ contexts = <<>>
    /\ project \in {NoProject, [exists |-> TRUE, content |-> initial_project_llm(0)]}
    /\ clock = 2
    /\ pc = "idle"
    /\ state = analyze_project_state(<<>>, <<>>)
    /\ modules = <<>>
    /\ dependencies = <<>>
    /\ last = NoHistory
    /\ file_analysis = NoAnalysis
    /\ faulty = {}
    /\ \E dir \in {NoDir, installed_dir}, md \in {NoFile, installed_claude_md, customized_claude_md, subsectioned_claude_md},
          envs \in SUBSET {"venv", ".venv"}, toml \in {"none", "poetry", "plain"} :
           disk = [NoFiles EXCEPT !.claude_dir = dir, !.claude_md = md,
                                  !.venvs = envs, !.pyproject = toml]
    /\ \E force \in BOOLEAN, no_venv \in BOOLEAN :
           installer = [NoInstaller EXCEPT
               !.pc = "run", !.force = force, !.no_venv = no_venv,
               !.original = [claude_dir |-> disk.claude_dir,
                             claude_md |-> disk.claude_md,
                             project |-> ProjectFile(project)]]
    /\ result = NoResult

NextInstall ==
    \/ CheckExistingInstallation
    \/ BackupExisting
    \/ RemoveClaudeDir
    \/ UnlinkRootFiles
    \/ SetupVenv
    \/ InstallCoreFiles
    \/ CreateOrMergeClaudeMd
    \/ CreateInitialProjectLlm
    \/ CreateHooksConfig
    \/ RunInitialUpdate
    \/ (installer.pc = "subprocess" /\ last.runs = 0 /\ NextRun)
    \/ Return

SpecInstall == InitInstall /\ [][NextInstall]_vars

-----------------------------------------------------------------------------
(* install-claude-context.py: the installer in one file                    *)

\* create_claude_md: the text before the documentation of the user; the
\* emoji are written as [bulb], [rocket], [warning], the arrow as -> and the
\* backquote as an apostrophe
claude_md_text ==
    "# Project Context Protocol\n"
    \o "\n"
    \o "## Core system prompt (HIGHEST PRIORITY)\n"
    \o "@.claude/prompt.md\n"
    \o "\n"
    \o "## Project-specific context  \n"
    \o "@.claude/format.md\n"
    \o "\n"
    \o "## [bulb] QUICK COMMANDS\n"
    \o "When the user types these exact commands, execute the corresponding action:\n"
    \o "- 'update' or 'u' -> [rocket] UNIVERSAL UPDATE - Does EVERYTHING automatically!\n"
    \o "  - Creates missing CONTEXT.llm files\n"
    \o "  - Updates existing CONTEXT.llm files  \n"
    \o "  - Updates PROJECT.llm\n"
    \o "  - Reads and applies CLAUDE.md rules\n"
    \o "  - Creates missing baseline tests\n"
    \o "  - Validates project health\n"
    \o "  - **This is the ONLY command you need!**\n"
    \o "- 'check' or 'c' -> Quick health check  \n"
    \o "- 'structure' or 's' -> Show PROJECT.llm structure\n"
    \o "- 'help' or 'h' -> Show all available commands\n"
    \o "- 'validate' -> Run full procedure validation\n"
    \o "- 'procedure' -> Check procedure compliance\n"
    \o "- 'baseline <module>' -> Create baseline tests for module\n"
    \o "- 'test-all' -> Run all baseline tests\n"
    \o "- 'deps' -> Show module dependency graph\n"
    \o "- 'project' -> Display full PROJECT.llm\n"
    \o "- 'ctx init' -> Initialize CONTEXT.llm for ALL modules (now included in 'u')\n"
    \o "- 'ctx update' -> Update existing CONTEXT.llm files (now included in 'u')\n"
    \o "- 'ctx scan' -> Find components without documentation\n"
    \o "- 'cleancode' or 'cc' -> Interactive dead code cleanup\n"
    \o "\n"
    \o "## [warning] CRITICAL RULES\n"
    \o "\n"
    \o "### 9-Step Mandatory Procedure\n"
    \o "For ANY code modification, follow the procedure in @.claude/prompt.md\n"
    \o "1. Read PROJECT.llm\n"
    \o "2. Find target module\n"
    \o "3. Read module CONTEXT.llm\n"
    \o "4. Analyze current code\n"
    \o "5. Create baseline tests\n"
    \o "6. Run baseline tests\n"
    \o "7. Make minimal changes\n"
    \o "8. Test again (STOP if fails)\n"
    \o "9. Update contexts\n"
    \o "\n"
    \o "### Code style\n"
    \o "- **NO COMMENTS** in code files\n"
    \o "- Use **ENGLISH ONLY** for all code, variables, functions, and documentation\n"
    \o "- Self-documenting code with clear naming\n"
    \o "\n"
    \o "### Python environment\n"
    \o "- ALWAYS use 'python3' instead of 'python'\n"
    \o "- ALWAYS use 'pip3' instead of 'pip'\n"
    \o "- ALWAYS work in virtual environment 'venv'\n"
    \o "\n"
    \o "### Component documentation (AUTOMATIC)\n"
    \o "- **ALWAYS create CONTEXT.llm** when creating new directories with code\n"
    \o "- **ALWAYS update CONTEXT.llm** when modifying files in a directory\n"
    \o "- **ALWAYS read CONTEXT.llm** before working with files in a directory\n"
    \o "\n"
    \o "## Command mappings:\n"
    \o "**[warning] IMPORTANT**: Check for exact command match. All Python scripts use venv/bin/python3 if venv exists.\n"
    \o "\n"
    \o "### EXACT COMMAND MAPPINGS:\n"
    \o "When user types exactly 'h' -> Run: 'venv/bin/python3 .claude/help.py' (or 'python3 .claude/help.py' if no venv)\n"
    \o "When user types exactly 'help' -> Run: 'venv/bin/python3 .claude/help.py' (or 'python3 .claude/help.py' if no venv)\n"
    \o "\n"
    \o "When user types exactly 'u' -> Run: 'venv/bin/python3 .claude/update.py' (or 'python3 .claude/update.py' if no venv)\n"
    \o "When user types exactly 'update' -> Run: 'venv/bin/python3 .claude/update.py' (or 'python3 .claude/update.py' if no venv)\n"
    \o "\n"
    \o "When user types exactly 'c' -> Run: 'venv/bin/python3 .claude/check.py' (or 'python3 .claude/check.py' if no venv)\n"
    \o "When user types exactly 'check' -> Run: 'venv/bin/python3 .claude/check.py' (or 'python3 .claude/check.py' if no venv)\n"
    \o "\n"
    \o "When user types exactly 's' -> Run: 'cat PROJECT.llm'\n"
    \o "When user types exactly 'structure' -> Run: 'cat PROJECT.llm'\n"
    \o "\n"
    \o "When user types exactly 'validate' -> Run: 'venv/bin/python3 .claude/validation.py' (or 'python3 .claude/validation.py' if no venv)\n"
    \o "\n"
    \o "When user types exactly 'procedure' -> Run: 'venv/bin/python3 .claude/validation.py --check-procedure' (or 'python3 .claude/validation.py --check-procedure' if no venv)\n"
    \o "\n"
    \o "When user types 'baseline' followed by module name -> Run: 'venv/bin/python3 .claude/baseline.py MODULE_NAME' (or 'python3 .claude/baseline.py MODULE_NAME' if no venv)\n"
    \o "\n"
    \o "When user types exactly 'test-all' -> Run: 'venv/bin/python3 -m pytest test_baseline_*.py -v' (or 'python3 -m pytest test_baseline_*.py -v' if no venv)\n"
    \o "\n"
    \o "When user types exactly 'deps' -> Run: 'cat PROJECT.llm | grep -A20 \"@dependency_graph\"'\n"
    \o "When user types exactly 'project' -> Run: 'cat PROJECT.llm'\n"
    \o "\n"
    \o "When user types exactly 'ctx init' -> Run: 'venv/bin/python3 .claude/context.py init' (or 'python3 .claude/context.py init' if no venv)\n"
    \o "\n"
    \o "When user types exactly 'ctx update' -> Run: 'venv/bin/python3 .claude/context.py update' (or 'python3 .claude/context.py update' if no venv)\n"
    \o "\n"
    \o "When user types exactly 'ctx scan' -> Run: 'venv/bin/python3 .claude/context.py scan' (or 'python3 .claude/context.py scan' if no venv)\n"
    \o "\n"
    \o "When user types exactly 'cc' -> Run: 'venv/bin/python3 .claude/cleancode.py --interactive' (or 'python3 .claude/cleancode.py --interactive' if no venv)\n"
    \o "When user types exactly 'cleancode' -> Run: 'venv/bin/python3 .claude/cleancode.py --interactive' (or 'python3 .claude/cleancode.py --interactive' if no venv)\n"
    \o "\n"
    \o "## Initial setup\n"
    \o "'''bash\n"
    \o "# 1. Create virtual environment\n"
    \o "python3 -m venv venv\n"
    \o "\n"
    \o "# 2. Activate venv\n"
    \o "source venv/bin/activate  # Linux/Mac\n"
    \o "# or\n"
    \o "venv\\Scripts\\activate     # Windows\n"
    \o "\n"
    \o "# 3. Update context\n"
    \o "python3 .claude/update.py\n"
    \o "'''\n"

Marker == "# Previous User Documentation"

\* detect_existing_setup()['user_content']; None is the empty text here,
\* create_claude_md treats both alike
user_content(file) ==
    IF ~file.exists THEN ""
    ELSE IF Contains(file.content, Marker) THEN strip(split1(file.content, Marker))
    ELSE IF Contains(file.content, "---")
         THEN strip(From(file.content, Find(file.content, "---") + 3))
    ELSE ""

\* create_claude_md(user_content)
single_file_claude_md(user) ==
    IF user # "" THEN claude_md_text \o "\n\n---\n\n" \o Marker \o "\n\n" \o user
    ELSE claude_md_text

\* install_files(): the files unpacked into .claude
single_file_scripts ==
    [n \in {"prompt.md", "update.py", "check.py", "help.py", "context.py",
            "baseline.py", "validation.py", "setup.sh", "cleancode.py"} |->
        "install-claude-context.py"]

\* the installations of one history
MaxInstalls == 2

\* install() up to the start of the initial update: setup_venv (venv is
\* there, is created, or cannot be created), detect_existing_setup,
\* handle_conflicts with the choice of the user, backup_existing, the
\* removal for "replace", install_files and the new CLAUDE.md; a copytree
\* that raises in backup_existing ends the installer
SingleFileInstall ==
    /\ installer.pc = "ready"
    /\ pc = "idle"
    /\ installer.installs < MaxInstalls
    /\ \E venvs \in {disk.venvs \cup {"venv"}, disk.venvs} :
       \E action \in IF disk.claude_dir.exists \/ disk.claude_md.exists
                     THEN {"merge", "replace", "cancel"} ELSE {"install"} :
       \E copied \in BOOLEAN :
           LET user == user_content(disk.claude_md)
               conflict == action # "install"
               backup == [exists |-> TRUE,
                          claude_dir |-> IF copied THEN disk.claude_dir ELSE NoDir,
                          claude_md |-> disk.claude_md, project |-> NoFile]
               kept == IF action = "replace" THEN NoDir ELSE disk.claude_dir
           IN  IF action = "cancel"
               THEN /\ disk' = [disk EXCEPT !.venvs = venvs]
                    /\ installer' = [installer EXCEPT !.action = action,
                                                      !.installs = @ + 1]
                    /\ UNCHANGED clock
               ELSE IF conflict /\ ~copied
               THEN /\ disk.claude_dir.exists
                    /\ disk' = [disk EXCEPT !.venvs = venvs, !.backup = backup]
                    /\ installer' = [installer EXCEPT
                           !.action = action, !.returned = "exit 1",
                           !.installs = @ + 1,
                           !.backup_dir = ".claude_backup_" \o isoformat(clock)]
                    /\ clock' = clock + 1
               ELSE /\ disk' = [disk EXCEPT
                           !.venvs = venvs,
                           !.backup = IF conflict THEN backup ELSE @,
                           !.claude_dir = [kept EXCEPT
                               !.exists = TRUE,
                               !.files = Override(kept.files, single_file_scripts)],
                           !.claude_md = [exists |-> TRUE,
                                          content |-> single_file_claude_md(user)]]
                    /\ installer' = [installer EXCEPT
                           !.pc = "single_update", !.action = action,
                           !.started = last.runs, !.installs = @ + 1,
                           !.backup_dir = IF conflict
                                          THEN ".claude_backup_" \o isoformat(clock)
                                          ELSE @]
                    /\ clock' = clock + 1
    /\ UNCHANGED <<tree, contexts, project, pc, state, modules, dependencies,
                   last, file_analysis, faulty, result>>

\* run_initial_update() has returned, install() prints its last messages
SingleFileReturn ==
    /\ installer.pc = "single_update"
    /\ pc = "aborted" \/ (pc = "idle" /\ last.runs > installer.started)
    /\ installer' = [installer EXCEPT !.pc = "ready", !.returned = "None"]
    /\ UNCHANGED <<tree, contexts, project, clock, pc, state, modules, dependencies,
                   last, file_analysis, faulty, disk, result>>

\* a CLAUDE.md that the user has written
written_claude_md == [exists |-> TRUE, content |-> "# My project\n\nUse tabs.\n"]

\* a CLAUDE.md that the user has written, with a rule
ruled_claude_md ==
    [exists |-> TRUE,
     content |-> "# My project\n\nUse tabs.\n\n---\n\nDeploy with make.\n"]

\* the CLAUDE.md of an earlier installation
generated_claude_md == [exists |-> TRUE, content |-> single_file_claude_md("")]

\* the CLAUDE.md of an earlier installation, to which the user has added
extended_claude_md ==
    [exists |-> TRUE,
     content |-> single_file_claude_md("") \o "\n## My rules\n\nUse tabs.\n"]

InitSingleFile ==
    /\ tree \in {<<>>, <<"auth">> :> <<service_py>>}
    /\ contexts = <<>>
    /\ project = NoProject
    /\ clock = 0
    /\ pc = "idle"
    /\ state = analyze_project_state(<<>>, <<>>)
    /\ modules = <<>>
    /\ dependencies = <<>>
    /\ last = NoHistory
    /\ file_analysis = NoAnalysis
    /\ faulty = {}
    /\ \E dir \in {NoDir, installed_dir},
          md \in {NoFile, written_claude_md, ruled_claude_md, generated_claude_md,
                  extended_claude_md} :
           disk = [NoFiles EXCEPT !.claude_dir = dir, !.claude_md = md]
    /\ installer = [NoInstaller EXCEPT !.pc = "ready"]
    /\ result = NoResult

NextSingleFile ==
    \/ SingleFileInstall
    \/ (installer.pc = "single_update" /\ last.runs = installer.started /\ NextRun)
    \/ SingleFileReturn

SpecSingleFile == InitSingleFile /\ [][NextSingleFile]_vars

-----------------------------------------------------------------------------
(* venv_utils.py: the interpreter that the scripts use                     *)

\* sys.executable
sys_executable == "/usr/bin/python3"

\* get_venv_info(): the content of .claude/venv_info.json, or None (here
\* NoVenvInfo) when the file is missing or json.load raises
get_venv_info(d) ==
    IF d.claude_dir.venv_info.exists /\ d.claude_dir.venv_info.readable
    THEN d.claude_dir.venv_info ELSE NoVenvInfo

\* get_python_executable() without the branch for venv_info.json
get_python_executable_Fallback(d) ==
    LET venv_python == IF "venv/bin/python3" \notin d.executables
                       THEN "venv/Scripts/python.exe" ELSE "venv/bin/python3"
    IN  IF venv_python \in d.executables THEN venv_python ELSE sys_executable

get_python_executable(d) ==
    LET info == get_venv_info(d)
    IN  IF info.exists /\ info.has_python /\ info.python \in d.executables
        THEN info.python
        ELSE LET venv_python == IF "venv/bin/python3" \notin d.executables
                                THEN "venv/Scripts/python.exe" ELSE "venv/bin/python3"
             IN  IF venv_python \in d.executables THEN venv_python
                 ELSE sys_executable

\* a call of get_python_executable()
GetPythonExecutable ==
    /\ result = NoResult
    /\ result' = get_python_executable(disk)
    /\ UNCHANGED <<tree, contexts, project, clock, pc, state, modules, dependencies,
                   last, file_analysis, faulty, disk, installer>>

\* the interpreters that venv_info.json may record
RecordedPythons == {python_of(".venv"), python_of("venv"), "/opt/py/bin/python3"}

\* the states of .claude/venv_info.json: missing, not JSON, without the key
\* python, or as setup_venv writes it
VenvInfoFiles ==
    {NoVenvInfo,
     [NoVenvInfo EXCEPT !.exists = TRUE],
     [NoVenvInfo EXCEPT !.exists = TRUE, !.readable = TRUE, !.path = ".venv"]}
    \cup {[exists |-> TRUE, readable |-> TRUE, has_python |-> TRUE,
           path |-> ".venv", python |-> p] : p \in RecordedPythons}

InitVenv ==
    /\ tree = <<>>
    /\ contexts = <<>>
    /\ project = NoProject
    /\ clock = 0
    /\ pc = "idle"
    /\ state = analyze_project_state(<<>>, <<>>)
    /\ modules = <<>>
    /\ dependencies = <<>>
    /\ last = NoHistory
    /\ file_analysis = NoAnalysis
    /\ faulty = {}
    /\ \E info \in VenvInfoFiles,
          found \in SUBSET (RecordedPythons \cup {"venv/Scripts/python.exe"}) :
           disk = [NoFiles EXCEPT !.claude_dir.exists = info.exists,
                                  !.claude_dir.venv_info = info,
                                  !.executables = found]
    /\ installer = NoInstaller
    /\ result = NoResult

NextVenv == GetPythonExecutable

SpecVenv == InitVenv /\ [][NextVenv]_vars

-----------------------------------------------------------------------------
(* validation.py: the procedure log                                        *)

\* len(expected_steps), and the length of a session in logs[-9:]
Steps == 9

\* the choices of --status
Statuses == {"completed", "failed", "skipped"}

\* the longest procedure log
MaxLog == 10

\* the line separator that log_step and log_action write: the scripts of
\* claude_context/scripts write a backslash and an n, the scripts that
\* install-claude-context.py unpacks from its string constants write a
\* newline
LineEnd(origin) == IF origin = "claude_context/scripts" THEN "\\n" ELSE "\n"

\* json.dumps(entry) of log_step
step_entry(now, step_num, status) ==
    "{\"timestamp\": \"" \o isoformat(now) \o "\", \"step\": " \o ToString(step_num)
    \o ", \"status\": \"" \o status \o "\", \"details\": \"\"}"

\* json.dumps(entry) of log_action in update.py
action_entry(now, action, status) ==
    "{\"timestamp\": \"" \o isoformat(now) \o "\", \"action\": \"" \o action
    \o "\", \"status\": \"" \o status \o "\", \"details\": \"\"}"

\* open(self.log_file, 'a').write(...)
append(file, text) == [exists |-> TRUE, content |-> file.content \o text]

\* json.loads(line) for the objects of the log: a line is one object,
\* surrounded by whitespace at most; anything else raises
json_loads(line) ==
    LET t == strip(line)
        ok == startswith(t, "{") /\ Find(t, "}") = Len(t)
        has_step == Contains(t, "\"step\": ")
        digits == split0(split1(t, "\"step\": "), ",")
    IN  [ok |-> ok,
         has_step |-> ok /\ has_step,
         step |-> IF ok /\ has_step /\ \E n \in 1..Steps : ToString(n) = digits
                  THEN CHOOSE n \in 1..Steps : ToString(n) = digits ELSE 0,
         status |-> IF ok THEN split0(split1(t, "\"status\": \""), "\"") ELSE ""]

\* the first index at which the test holds, 0 if none
FirstIndex(seq, Test(_)) ==
    LET hits == {i \in DOMAIN seq : Test(seq[i])}
    IN  IF hits = {} THEN 0 ELSE CHOOSE i \in hits : \A j \in hits : i <= j

\* check_procedure_compliance(): "True", "False", or the exception that
\* leaves it
check_procedure_compliance(file) ==
    IF ~file.exists THEN "False"
    ELSE LET log_lines == SelectSeq(split(file.content, "\n"),
                                       LAMBDA l : strip(l) # "")
             logs  == [i \in DOMAIN log_lines |-> json_loads(log_lines[i])]
             session_logs == From(logs, IF Len(logs) > Steps THEN Len(logs) - Steps + 1
                                        ELSE 1)
             found(i) == FirstIndex(session_logs, LAMBDA log : log.step = i)
             no_key(i) == FirstIndex(session_logs, LAMBDA log : ~log.has_step)
         IN  IF \E i \in DOMAIN logs : ~logs[i].ok THEN "JSONDecodeError"
             ELSE IF logs = <<>> THEN "False"
             ELSE IF \E i \in 1..Steps :
                         no_key(i) # 0 /\ (found(i) = 0 \/ no_key(i) < found(i))
                  THEN "KeyError"
             ELSE IF \A i \in 1..Steps :
                         found(i) # 0 /\ session_logs[found(i)].status # "failed"
                  THEN "True" ELSE "False"

\* the validation.py that is installed
Origin == disk.claude_dir.files["validation.py"]

\* the entries of the log, as they were written
Logged ==
    LET texts == split(disk.procedure_log.content, LineEnd(Origin))
    IN  [i \in 1..(Len(texts) - 1) |-> json_loads(texts[i])]

\* the step that the procedure asks for: the first step that is neither
\* completed nor skipped
NextStep(before) ==
    LET handled == {before[i].step : i \in {j \in DOMAIN before :
                                               before[j].status # "failed"}}
        open == {n \in 1..(Steps + 1) : n \notin handled}
    IN  CHOOSE n \in open : \A k \in open : n <= k

\* an entry that follows the procedure
Regular(before, entry) ==
    entry.status = "completed" /\ entry.step = NextStep(before)

\* an entry that leaves it: the step fails or is skipped, or the step after
\* it is taken first
Deviating(before, entry) ==
    \/ entry.status # "completed" /\ entry.step = NextStep(before)
    \/ entry.status = "completed" /\ entry.step = NextStep(before) + 1

\* the session has left the procedure
Irregular(log) ==
    \E i \in DOMAIN log : log[i].has_step /\ ~Regular(SubSeq(log, 1, i - 1), log[i])

\* validation.py --log-step N --status S; the sessions of the model leave
\* the procedure in one entry at most
LogStep ==
    /\ result = NoResult
    /\ LET log == SelectSeq(Logged, LAMBDA e : e.has_step)
       IN  /\ Len(log) < MaxLog
           /\ \E step_num \in 1..Steps, status \in Statuses :
                  LET entry == [step |-> step_num, status |-> status]
                  IN  /\ \/ Regular(log, entry)
                         \/ ~Irregular(log) /\ Deviating(log, entry)
                      /\ disk' = [disk EXCEPT !.procedure_log =
                             append(@, step_entry(clock, step_num, status)
                                       \o LineEnd(Origin))]
    /\ clock' = clock + 1
    /\ UNCHANGED <<tree, contexts, project, pc, state, modules, dependencies,
                   last, file_analysis, faulty, installer, result>>

\* update.py: log_action('update', 'started'), before the session
LogAction ==
    /\ result = NoResult
    /\ ~disk.procedure_log.exists
    /\ disk' = [disk EXCEPT !.procedure_log =
           append(@, action_entry(clock, "update", "started") \o LineEnd(Origin))]
    /\ clock' = clock + 1
    /\ UNCHANGED <<tree, contexts, project, pc, state, modules, dependencies,
                   last, file_analysis, faulty, installer, result>>

\* validation.py --check-procedure
CheckProcedureCompliance ==
    /\ result = NoResult
    /\ result' = check_procedure_compliance(disk.procedure_log)
    /\ UNCHANGED <<tree, contexts, project, clock, pc, state, modules, dependencies,
                   last, file_analysis, faulty, disk, installer>>

InitProcedure ==
    /\ tree = <<>>
    /\ contexts = <<>>
    /\ project = NoProject
    /\ clock = 0
    /\ pc = "idle"
    /\ state = analyze_project_state(<<>>, <<>>)
    /\ modules = <<>>
    /\ dependencies = <<>>
    /\ last = NoHistory
    /\ file_analysis = NoAnalysis
    /\ faulty = {}
    /\ \E origin \in {"claude_context/scripts", "install-claude-context.py"} :
           disk = [NoFiles EXCEPT !.claude_dir.exists = TRUE,
                                  !.claude_dir.files = "validation.py" :> origin]
    /\ installer = NoInstaller
    /\ result = NoResult

NextProcedure ==
    \/ LogStep
    \/ LogAction
    \/ CheckProcedureCompliance

SpecProcedure == InitProcedure /\ [][NextProcedure]_vars

-----------------------------------------------------------------------------
(* Properties of the update command                                        *)

\* the text that follows the last occurrence of a marker
AfterLast(s, marker) ==
    LET hits == Occurrences(s, marker)
        k == CHOOSE i \in hits : \A j \in hits : j <= i
    IN  IF hits = {} THEN "" ELSE From(s, k + Len(marker))

\* the entries of the history log at the end of PROJECT.llm
HistoryLog(p) ==
    IF p.exists THEN dash_lines(AfterLast(p.content, "@recent_changes:")) ELSE <<>>

\* the module listing of PROJECT.llm: its @critical_paths and @test_coverage
\* sections
Listing(content) ==
    split0(AfterLast(content, "\\n\\n@critical_paths:"), "\\n\\n@recent_changes:")

C5_HistoryLog ==
    [][(pc = "write" /\ pc' = "health") =>
          LET old == HistoryLog(project)
              new == HistoryLog(project')
          IN  /\ Len(new) <= 10
              /\ Len(new) >= 1
              /\ startswith(new[1], "- " \o isoformat(clock) \o ": ")
              /\ Tail(new) = Take(old, 9)]_vars

\* C6: every dependency edge module -> dep names a module of the scan
C6_NoDanglingEdges ==
    pc \in {"write", "health"} =>
        \A p \in DOMAIN dependencies :
            \A dep \in Range(dependencies[p]) : dep \in DOMAIN modules

\* C7: the dependency list computed for a module never contains the module
C7_NoSelfEdges ==
    pc \in {"write", "health"} =>
        \A p \in DOMAIN dependencies : p \notin Range(dependencies[p])

\* C8: after a complete run every directory that find_modules returns holds
\* a CONTEXT.llm, and the run has created no CONTEXT.llm in a directory that
\* find_modules does not return.
C8_OneDescriptorPerModule ==
    pc = "health" =>
        /\ \A p \in DOMAIN modules : DirOf(tree, p) \in DOMAIN contexts
        /\ \A d \in DOMAIN contexts \ last.before : relpath(d) \in DOMAIN modules

\* the version that a PROJECT.llm states: the text of its @version line
VersionLine(content) == strip(split0(split1(content, "@version:"), "\n"))

\* the text that create_project_llm has written between @version: and the
\* @updated line of its own run
WrittenVersion(content, now) ==
    strip(split0(split1(content, "@version:"),
                 "\n@updated: " \o isoformat(now) \o "\n"))

\* C18: when a PROJECT.llm exists, the value that create_project_llm writes
\* after @version: is the value that stood after @version: in the previous
\* PROJECT.llm.
C18_VersionCarried ==
    [][(pc = "write" /\ project.exists /\ project' # project) =>
          WrittenVersion(project'.content, clock) = VersionLine(project.content)]_vars

\* the scan and the dependency computation of the run are complete
GraphComplete ==
    /\ pc = "write"
    /\ modules = find_modules(tree, contexts)
    /\ dependencies \in analyze_dependencies(tree, modules)

-----------------------------------------------------------------------------
(* Properties of the descriptor merge                                      *)

\* the purpose that a descriptor states: the text of its @purpose line
PurposeText(content) ==
    IF Contains(content, "@purpose:")
    THEN strip(split0(split1(content, "@purpose:"), "\n"))
    ELSE ""

\* the symbol list of a descriptor
InterfaceSection(content) ==
    IF Contains(content, "@interface:")
    THEN split0(split1(content, "@interface:"), "@behavior:")
    ELSE ""

\* the step is a merge that has rewritten the descriptor of d
Merged(d) ==
    /\ last'.merges = last.merges + 1
    /\ d \in DOMAIN contexts
    /\ contexts'[d].mtime # contexts[d].mtime

\* the sections and notes that the user has written in the model
Authored ==
    { "@purpose: Handle user authentication\n",
      "@state:\n- session_timeout: 3600\n",
      "- Sessions stored in Redis\n",
      "@errors:\n- AuthenticationError: Invalid credentials\n" }

\* C2: the merge of a CONTEXT.llm that generate_context_llm or a previous
\* merge has produced from the sources as they are now leaves the CONTEXT.llm
\* byte-identical.
C2_MergeIdempotent ==
    [][\A d \in DOMAIN tree :
          ( /\ Merged(d)
            /\ d \in DOMAIN last.written
            /\ last.written[d] = contexts[d].content )
              => contexts'[d].content = contexts[d].content]_vars

C15_UnparsedDescriptorReplaced ==
    [][\A d \in DOMAIN tree :
          ( /\ last'.merges = last.merges + 1
            /\ d \in DOMAIN contexts
            /\ ~Contains(contexts[d].content, "@interface:") )
              => contexts'[d].content = generate_context_llm(tree, d)]_vars

\* the text of the @deps line of a descriptor
DepsText(content) ==
    IF Contains(content, "@deps:")
    THEN strip(split0(split1(content, "@deps:"), "\n"))
    ELSE ""

\* the symbol lines of the sources of d as they are now
CurrentSymbols(d) == interface_lines(analyze_all(glob_py(FilesOf(tree, d))))

\* the symbol list of the descriptor, the text from @interface: to the next
\* section, is the list of the current symbols: it begins with their lines
\* and holds no further item
ListsCurrent(content, d) ==
    LET section == IF Contains(content, "@interface:")
                   THEN split0(split1(content, "@interface:"), "@")
                   ELSE ""
    IN  /\ startswith(section, CurrentSymbols(d))
        /\ ~Contains(From(section, Len(CurrentSymbols(d)) + 1), "- ")

\* some CONTEXT.llm is older than a *.py file of its directory
SomeOlder ==
    \E e \in DOMAIN contexts :
        \E f \in Range(glob_py(FilesOf(tree, e))) : f.mtime > contexts[e].mtime

C4_AuthoredSectionsKept ==
    [][\A d \in DOMAIN tree :
          Merged(d) =>
              LET old == contexts[d].content
                  new == contexts'[d].content
                  had == {a \in Authored : Contains(old, a)}
              IN  /\ \A a \in had : Contains(new, a)
                  /\ \A a, b \in had :
                         Find(old, a) < Find(old, b) => Find(new, a) < Find(new, b)]_vars

-----------------------------------------------------------------------------
(* Properties of the dependency edges                                      *)

\* the import statements of a source text: its lines that begin with
\* `import` or `from` and name a module
ImportStatements(text) ==
    {l \in Range(split(text, "\n")) :
        /\ startswith(strip(l), "import ") \/ startswith(strip(l), "from ")
        /\ Len(words(l)) >= 2}

\* the first path segments of the modules that a directory imports
ImportedSegments(t, d) ==
    {split0(words(l)[2], ".") :
        l \in UNION {ImportStatements(f.text) : f \in Range(glob_py(FilesOf(t, d)))}}

\* the number of edges p -> q
Edges(p, q) ==
    Cardinality({i \in DOMAIN get(dependencies, p) : get(dependencies, p)[i] = q})

\* C19: for every module and every import statement of its files, in the
\* `import X` and in the `from X import` form, whose first path segment is
\* the name of another project directory, analyze_dependencies produces
\* exactly one edge from the module to that directory.
C19_EdgePerImport ==
    pc = "write" =>
        \A p, q \in DOMAIN modules :
            (p # q /\ q \in ImportedSegments(tree, DirOf(tree, p)))
                => Edges(p, q) = 1

-----------------------------------------------------------------------------
(* Properties of the conflict report                                       *)

\* the lines of PROJECT.llm, at line breaks and at the escaped separators
ReportLines(content) == Range(split(replace(content, "\\n", "\n"), "\n"))

\* the modules whose name holds the role marker "test"
TestRole == {p \in DOMAIN modules : Contains(lower(p), "test")}

\* the lines of PROJECT.llm that report a conflict of high severity between
\* all the directories of D
HighConflicts(content, D) ==
    {l \in ReportLines(content) :
        /\ Contains(lower(l), "high")
        /\ \A p \in D : Contains(l, p)}

\* C20: for a project in which exactly two directories match the role
\* marker "test", the run reports exactly one conflict of high severity,
\* and the conflict names both directories.
C20_RoleDuplicationReported ==
    (pc = "health" /\ Cardinality(TestRole) = 2) =>
        Cardinality(HighConflicts(project.content, TestRole)) = 1

\* the lines of PROJECT.llm that report a conflict of medium severity
MediumConflicts(content) ==
    {l \in ReportLines(content) : Contains(lower(l), "medium")}

\* C21: for a project that holds model/ and models/ at the same level, the
\* run reports exactly one conflict of medium severity.
C21_SingularPluralReported ==
    (pc = "health" /\ {"model", "models"} \subseteq DOMAIN modules) =>
        Cardinality(MediumConflicts(project.content)) = 1

-----------------------------------------------------------------------------
(* Properties of the symbol extraction                                     *)

\* the file that was analysed
Analysed == CHOOSE f \in UNION {Range(tree[d]) : d \in DOMAIN tree} :
                f.name = file_analysis.file

\* C11: no name that begins with an underscore is in the symbol list that
\* analyze_python_file returns, be it the name of a top-level function, of a
\* method or of a class.
C11_NoPrivateName ==
    file_analysis.file # "" =>
        /\ \A i \in 1..Len(file_analysis.functions) :
               ~startswith(file_analysis.functions[i], "_")
        /\ \A i \in 1..Len(file_analysis.classes) :
               /\ ~startswith(file_analysis.classes[i].name, "_")
               /\ \A j \in 1..Len(file_analysis.classes[i].methods) :
                      ~startswith(file_analysis.classes[i].methods[j], "_")

\* C12: the symbol list holds only declarations of the top level of the
\* file: every listed function and every listed class is a statement of the
\* module body, and a listed method stands directly in the body of its class.
C12_TopLevelOnly ==
    file_analysis.file # "" =>
        /\ \A i \in 1..Len(file_analysis.functions) :
               \E n \in Range(Analysed.ast) :
                   n.type = "FunctionDef" /\ n.name = file_analysis.functions[i]
        /\ \A i \in 1..Len(file_analysis.classes) :
               \E n \in Range(Analysed.ast) :
                   /\ n.type = "ClassDef"
                   /\ n.name = file_analysis.classes[i].name
                   /\ file_analysis.classes[i].methods = methods(n)
        /\ Len(file_analysis.classes)
               = Cardinality({k \in 1..Len(Analysed.ast) :
                                 Analysed.ast[k].type = "ClassDef"})

-----------------------------------------------------------------------------
(* Properties of the failures                                              *)

\* the file as if it declared nothing
Blank(f) ==
    IF ~f.readable
    THEN [f EXCEPT !.readable = TRUE, !.parses = TRUE, !.text = "", !.ast = <<>>]
    ELSE IF ~f.parses THEN [f EXCEPT !.parses = TRUE, !.ast = <<>>]
    ELSE f

BlankTree(t) == [d \in DOMAIN t |-> [i \in 1..Len(t[d]) |-> Blank(t[d][i])]]

Broken(f) == ~f.readable \/ ~f.parses

\* C13: a source file that cannot be read or parsed contributes no class and
\* no function, and every step of the run writes what it would write if the
\* file declared nothing; the file does not end the run.
C13_ParseFailureNonFatal ==
    [][/\ pc = "create" =>
              contexts' = WriteNew(BlankTree(tree), contexts,
                                   DOMAIN contexts' \ DOMAIN contexts, clock)
       /\ pc = "update" =>
              contexts' = Rewrite(BlankTree(tree), contexts,
                                  {d \in DOMAIN contexts : contexts'[d] # contexts[d]},
                                  clock)
       /\ pc = "deps" => dependencies' \in analyze_dependencies(BlankTree(tree), modules)
       /\ pc = "write" =>
              project'.content =
                  create_project_llm(BlankTree(tree), readable_contexts(contexts, faulty),
                                     project, modules, dependencies, clock)
       /\ pc' = "aborted" => faulty # {}]_vars

C13_Witness ==
    /\ pc = "health"
    /\ project.exists
    /\ \E d \in DOMAIN contexts \ last.before :
           /\ Broken(tree[d][1])
           /\ Contains(contexts[d].content, "- run()")
           /\ ~Contains(contexts[d].content, "AuthService")

\* C14: when the descriptor of one directory cannot be read or written, the
\* run is not aborted: the missing descriptors of all other directories and
\* PROJECT.llm are written.
C14_FailureIsolated ==
    /\ pc # "aborted"
    /\ pc = "health" =>
           /\ project.exists
           /\ \A d \in DOMAIN tree \ faulty : d \in DOMAIN contexts

-----------------------------------------------------------------------------
(* Properties of the scan                                                  *)

\* C9: no module returned by find_modules has, at any depth of its path, a
\* segment that is in the ignore set.
C9_NoIgnoredSegment ==
    \A p \in DOMAIN modules :
        \A seg \in Range(split(p, "/")) :
            seg \notin {"venv", ".venv", ".claude", "__pycache__"}

C9_Witness ==
    /\ pc = "deps"
    /\ DOMAIN modules # {}
    /\ \E d \in DOMAIN tree :
           Len(d) >= 2 /\ d[Len(d)] \in {"venv", ".claude"} /\ HasPy(tree, d)

\* a directory directly contains a source file
ContainsSource(t, d) == \E f \in Range(t[d]) : endswith(f.name, ".py")

\* C10 (as claimed): every directory other than the root that directly
\* contains a .py file and is not excluded by the Path Filter is a key of the
\* map that find_modules returns; the root is never a key.
C10_ScanComplete ==
    pc = "deps" =>
        /\ \A d \in DOMAIN tree :
               (d # <<>> /\ ContainsSource(tree, d) /\ ~should_exclude(d))
                   => relpath(d) \in DOMAIN modules
        /\ "." \notin DOMAIN modules

\* C10 (amended): every directory other than the root is a key of the map
\* if it directly contains a .py file that the Path Filter does not exclude,
\* is not excluded by the Path Filter, has no "backup" in its path and does
\* not lie below a top-level directory with a system name (lib, bin, Scripts,
\* site-packages); nested directories are keys of their own and the root is
\* never a key.
C10_ScanCompleteOutsideSystemDirs ==
    pc = "deps" =>
        /\ \A d \in DOMAIN tree :
               ( /\ d # <<>>
                 /\ \E f \in Range(tree[d]) :
                        endswith(f.name, ".py") /\ ~should_exclude(<<f.name>>)
                 /\ ~should_exclude(d)
                 /\ ~Contains(join("/", d), "backup")
                 /\ ~(Len(d) >= 2 /\ d[1] \in {"lib", "bin", "Scripts", "site-packages"}) )
                   => relpath(d) \in DOMAIN modules
        /\ "." \notin DOMAIN modules

C10_Witness ==
    /\ pc = "deps"
    /\ <<>> \in DOMAIN tree /\ ContainsSource(tree, <<>>)
    /\ {"auth", "auth/models"} \subseteq DOMAIN modules

-----------------------------------------------------------------------------
(* Properties of the installer                                             *)

\* C22: when run() executes without force and PROJECT.llm already exists,
\* the content of PROJECT.llm after run() has returned is its content
\* before the run.
C22_NormalInstallKeepsProject ==
    (installer.pc = "done" /\ ~installer.force /\ installer.original.project.exists)
        => project.content = installer.original.project.content

\* the sections of level two that the user has added: each from its heading
\* to the next heading of level two, subsections included
UserSections(content) ==
    LET ls    == split(content, "\n")
        heads == {i \in 1..Len(ls) : IsHeading(ls[i])}
        until(i) == LET later == {j \in heads : j > i}
                    IN  IF later = {} THEN Len(ls) + 1
                        ELSE CHOOSE j \in later : \A k \in later : j <= k
    IN  {strip(join("\n", SubSeq(ls, i, until(i) - 1))) :
            i \in {h \in heads : lstrip(From(ls[h], 3))
                                  \notin Range(section_titles(get_basic_claude_template))}}

\* C23: after merge_claude_md every section that the user has added to the
\* existing CLAUDE.md, and that is no section of the template, stands in
\* the new CLAUDE.md with its complete body, subsections included.
C23_UserSectionsPreserved ==
    (installer.pc = "project_llm" /\ ~installer.force
     /\ installer.original.claude_md.exists)
        => \A section \in UserSections(installer.original.claude_md.content) :
               Contains(disk.claude_md.content, section)

\* C25: in a Poetry project in which venv and .venv are both found,
\* setup_venv records .venv in venv_info.json, in whatever order
\* find_existing_venvs has returned them.
C25_PoetryPrefersDotVenv ==
    (has_poetry(disk) /\ Range(installer.existing_venvs) = {"venv", ".venv"})
        => /\ disk.claude_dir.venv_info.exists
           /\ disk.claude_dir.venv_info.path = ".venv"
           /\ disk.claude_dir.venv_info.python = python_of(".venv")

C25_Witness ==
    /\ has_poetry(disk)
    /\ installer.existing_venvs = <<"venv", ".venv">>
    /\ disk.claude_dir.venv_info.path = ".venv"

\* the file is where it was, or its copy is in the backup directory
Kept(original, current, copy) ==
    original.exists => (current = original \/ copy = original)

\* C27: in force mode each artefact that existed when run() began (every
\* file of .claude, CLAUDE.md, PROJECT.llm) is, in every state during and
\* after the run, at its place or in the backup directory with the content
\* it had, also when the run fails and returns False.
C27_BackupBeforeRemoval ==
    installer.force =>
        /\ Kept(installer.original.claude_md, disk.claude_md, disk.backup.claude_md)
        /\ Kept(installer.original.project, ProjectFile(project), disk.backup.project)
        /\ \A n \in DOMAIN installer.original.claude_dir.files :
               LET text == installer.original.claude_dir.files[n]
                   at(dir) == /\ dir.exists
                              /\ n \in DOMAIN dir.files
                              /\ dir.files[n] = text
               IN  at(disk.claude_dir) \/ at(disk.backup.claude_dir)

C27_Witness ==
    /\ installer.force
    /\ installer.original.claude_dir.exists
    /\ installer.original.claude_md.exists
    /\ installer.original.project.exists
    /\ ~disk.claude_dir.exists
    /\ ~disk.claude_md.exists
    /\ ~project.exists

\* the interpreter that venv_info.json records can be used
RecordedUsable ==
    /\ disk.claude_dir.venv_info.exists
    /\ disk.claude_dir.venv_info.readable
    /\ disk.claude_dir.venv_info.has_python
    /\ disk.claude_dir.venv_info.python \in disk.executables

\* C26: get_python_executable returns the interpreter recorded in
\* venv_info.json when the file is readable and the recorded path exists;
\* otherwise venv/bin/python3 when it exists, otherwise
\* venv/Scripts/python.exe when it exists, otherwise sys.executable.
C26_PythonPriorityChain ==
    result # NoResult =>
        /\ RecordedUsable => result = disk.claude_dir.venv_info.python
        /\ (~RecordedUsable /\ "venv/bin/python3" \in disk.executables)
               => result = "venv/bin/python3"
        /\ (~RecordedUsable /\ "venv/bin/python3" \notin disk.executables
            /\ "venv/Scripts/python.exe" \in disk.executables)
               => result = "venv/Scripts/python.exe"
        /\ (~RecordedUsable /\ "venv/bin/python3" \notin disk.executables
            /\ "venv/Scripts/python.exe" \notin disk.executables)
               => result = sys_executable

C26_Witness ==
    /\ result = "/opt/py/bin/python3"
    /\ RecordedUsable
    /\ {"venv/bin/python3", "venv/Scripts/python.exe"} \subseteq disk.executables

\* the latest session of the log shows the nine steps, completed, in
\* increasing order
Compliant ==
    LET session == From(Logged, IF Len(Logged) > Steps THEN Len(Logged) - Steps + 1
                                ELSE 1)
    IN  /\ disk.procedure_log.exists
        /\ Len(session) = Steps
        /\ \A i \in 1..Steps : session[i].step = i /\ session[i].status = "completed"

\* C24: check_procedure_compliance returns True only if the latest session
\* of the procedure log shows all nine steps completed in increasing order,
\* and returns False for a log in which a step is missing, failed, skipped
\* or out of order.
C24_ComplianceChecked ==
    result # NoResult =>
        /\ result = "True" => Compliant
        /\ ~Compliant => result = "False"

\* what the user has written into a CLAUDE.md: all of a file of their own;
\* in a file of the installer, the documentation kept under the marker or
\* the text added after the text of the installer
UserWritten(content) ==
    IF ~startswith(content, claude_md_text) THEN strip(content)
    ELSE LET rest == From(content, Len(claude_md_text) + 1)
         IN  IF Contains(rest, Marker) THEN strip(split1(rest, Marker))
             ELSE strip(rest)

\* C28: an installation with the choice "Smart merge" over an existing
\* CLAUDE.md writes a CLAUDE.md that holds all that the user had written
\* into the previous one, once, under "# Previous User Documentation";
\* so for the first merge as for every later one.
C28_SmartMergeKeepsUserContent ==
    [][(installer.pc = "ready" /\ installer'.pc = "single_update"
        /\ installer'.action = "merge" /\ disk.claude_md.exists
        /\ UserWritten(disk.claude_md.content) # "")
           => LET user == UserWritten(disk.claude_md.content)
                  new == disk'.claude_md.content
              IN  /\ Cardinality(Occurrences(new, user)) = 1
                  /\ Contains(new, Marker)
                  /\ Find(new, Marker) < Find(new, user)]_vars

\* a step of create_missing_contexts (step 2 of the update command) or of
\* init_contexts (ctx init)
CreationStep ==
    \/ pc = "create"
    \/ pc = "idle" /\ pc' = "idle" /\ contexts' # contexts

\* C29: create_missing_contexts and init_contexts write a CONTEXT.llm only
\* into directories that have none: every CONTEXT.llm that exists before
\* the call exists after it with the same content.
C29_CreationNeverOverwrites ==
    [][CreationStep =>
          \A d \in DOMAIN contexts :
              d \in DOMAIN contexts' /\ contexts'[d] = contexts[d]]_vars

C29_Witness ==
    /\ pc = "update"
    /\ \E d \in DOMAIN contexts :
           d \in last.before /\ contexts[d] = documented_context
    /\ \E d \in DOMAIN contexts : d \notin last.before

\* the entries of @critical_paths: the lines that begin with a dash, from
\* the marker to the section that follows it
PathEntries(p) ==
    IF p.exists /\ Contains(p.content, "@critical_paths:")
    THEN dash_lines(split0(split1(p.content, "@critical_paths:"),
                           "\\n\\n@test_coverage:"))
    ELSE <<>>

\* C30: every create_project_llm writes the @critical_paths entries of the
\* existing PROJECT.llm back unchanged (same entries, same order, same
\* text, also when an entry contains an '@'), and writes the placeholders
\* only when the previous file has no entry.
C30_CriticalPathsKept ==
    [][pc = "write" =>
          /\ PathEntries(project) # <<>> => PathEntries(project') = PathEntries(project)
          /\ Contains(project'.content, Placeholders)
                 => \/ PathEntries(project) = <<>>
                    \/ Contains(project.content, Placeholders)]_vars

====
